---- MODULE Spec2Model ----
(***************************************************************************)
(* A model of the sidecar kernel of the tailor repository:                 *)
(*   - the RPC boundary      (sidecar/websocket_server.py, sidecar/utils.py)*)
(*   - the event bus         (sidecar/event_bus.py)                        *)
(*   - the command registry and the plugin host (sidecar/vault_brain.py)   *)
(*   - one chat turn through the pipeline (sidecar/pipeline/) and the      *)
(*     streaming and non-streaming chat.send (sidecar/vault_brain.py)      *)
(*   - the life cycle of the plugin host, the choice of the model of a     *)
(*     chat.send, the parameters of the built-in commands                  *)
(*     (sidecar/vault_brain.py) and the outbound events over several       *)
(*     websockets (sidecar/websocket_server.py)                            *)
(*   - the outbound queue before the event loop runs, the messages built   *)
(*     for the LLM collaborator (sidecar/pipeline/), the end of a          *)
(*     streaming turn, and the chat file of the memory plugin              *)
(*     (example-vault/plugins/memory/main.py)                              *)
(* Each component has its own specification (SpecRpc, SpecBus, SpecReg,    *)
(* SpecLoad, SpecExec, SpecPipe, SpecStream, SpecHost, SpecChat, SpecCall, *)
(* SpecConn, SpecQueue, SpecMsgs, SpecTurn, SpecMem); a specification      *)
(* leaves the variables of the others alone.                               *)
(***************************************************************************)
EXTENDS Integers, Sequences, FiniteSets, TLC

VARIABLES
    \* ---- RPC boundary: WebSocketServer ----
    connection,     \* WebSocketServer.connection: 0 is None, else a connection id
    connCount,      \* connections accepted so far
    brainAttached,  \* WebSocketServer.brain is set
    loopPc,         \* per connection: position of handle_connection
    transport,      \* per connection: state of the websocket itself
    wire,           \* per connection: the messages written to it, in order
    cur,            \* per connection: the request whose handler is awaited
    handled,        \* number of inbound messages taken so far
    rpcLast,        \* history: the record of the last completed handle_message
    rpcPrev,        \* history: the outline of the one completed before it
    \* ---- Event bus: EventBus ----
    subscribers,    \* EventBus._subscribers: event -> list of (priority, handler)
    subSerial,      \* history: number of subscribe calls so far
    pubCount,       \* publish calls made so far
    pub,            \* the publish call in progress (or the last one): its
                    \* local state and history
    \* ---- Command registry and plugin host: VaultBrain ----
    commands,       \* VaultBrain.commands: the records {id, handler, plugin}
    lastReg,        \* history: the last registry call and the registry before it
    plugins,        \* VaultBrain.plugins: the loaded plugin ids, in insertion order
    disk,           \* the plugins directory: what each plugin is and does
    loadPc,         \* position of initialize
    loadIdx,        \* position of the loop of _load_plugins / _activate_plugins
    \* ---- execute_command: VaultBrain.execute_command ----
    exec,           \* the execute_command call in progress (or the last one)
    scheduled,      \* the COMMAND_EXECUTED publishes handed to create_task
    execCount,      \* execute_command calls made so far
    \* ---- Pipeline: DefaultPipeline, PipelineNodes, chat.send ----
    pipe,           \* the chat turn in progress (or the last one)
    trace,          \* history: what the turn published and did, in order
    turns,          \* chat.send calls made so far
    \* ---- Streaming chat.send: VaultBrain._stream_chat_response ----
    strm,           \* the streaming call in progress (or the last one)
    emitted,        \* history: its emit_to_frontend calls and its publish
    clientConnected,\* VaultBrain.is_client_connected
    streams,        \* streaming calls made so far
    closed,         \* history: the stream ids of the calls that returned
    \* ---- Plugin host life cycle: initialize, restart_vault, shutdown ----
    host,           \* position of the operation in progress, and history
    hlog,           \* history: the calls of the operation, in order
    hsubs,          \* the handlers subscribed on self.events
    hdisk,          \* the plugin directories and the workspace overrides
    onLoads,        \* history: per plugin, the on_load calls so far
    \* ---- chat.send: the choice of the model ----
    chat,           \* position and data of the chat.send call in progress
    \* ---- Built-in commands: their parameters ----
    builtin,        \* the call of a built-in command in progress
    \* ---- Outbound events ----
    sendTasks,      \* the send tasks the event loop holds ready, oldest first
    emits,          \* history: the number of events emitted
    pending,        \* WebSocketServer.pending_messages
    loopOn,         \* the event loop runs (asyncio.run was entered)
    \* ---- DefaultPipeline: the messages handed to the LLM collaborator ----
    built,          \* inputs of one turn and what run / stream_run built
    \* ---- memory plugin: one chat file ----
    branches,       \* data["branches"]: branch id -> [used, parent, messages]
    active,         \* data["active_branch"]
    memLast         \* history: the last memory operation and what it saw

rpcVars == <<connection, connCount, brainAttached, loopPc, transport, wire,
             cur, handled, rpcLast, rpcPrev>>

busVars == <<subscribers, subSerial, pubCount, pub>>

regVars == <<commands, lastReg>>

loadVars == <<plugins, disk, loadPc, loadIdx>>

execVars == <<exec, scheduled, execCount>>

pipeVars == <<pipe, trace, turns>>

streamVars == <<strm, emitted, clientConnected, streams, closed>>

hostVars == <<host, hlog, hsubs, hdisk, onLoads>>

chatVars == <<chat>>

callVars == <<builtin>>

outVars == <<sendTasks, emits>>

queueVars == <<pending, loopOn>>

msgVars == <<built>>

memVars == <<branches, active, memLast>>

extVars == <<execVars, pipeVars, streamVars, hostVars, chatVars, callVars, outVars, queueVars, msgVars, memVars>>

vars == <<rpcVars, busVars, regVars, loadVars, extVars>>

(***************************************************************************)
(* Bounds of the model.                                                    *)
(***************************************************************************)
MaxConns == 2       \* connections accepted in one run
MaxMsgs  == 2       \* inbound messages handled in one run
MaxSubscribes == 2  \* subscribe calls in one run
MaxPubs  == 2       \* publish calls in one run

(***************************************************************************)
(* Program constants (sidecar/constants.py).                               *)
(***************************************************************************)
JSONRPC_PARSE_ERROR      == -32700
JSONRPC_INVALID_REQUEST  == -32600
JSONRPC_METHOD_NOT_FOUND == -32601
JSONRPC_INVALID_PARAMS   == -32602
JSONRPC_INTERNAL_ERROR   == -32603
JSONRPC_VERSION          == "2.0"

(***************************************************************************)
(* Inbound messages.  A message is the text read from the socket,          *)
(* abstracted to what handle_message looks at.                             *)
(*   json    : "invalid"  not JSON at all                                  *)
(*             "scalar"   JSON null / number / boolean                     *)
(*             "array"    a JSON array (without the element "jsonrpc")     *)
(*             "object"   a JSON object                                    *)
(*   jsonrpc : the "jsonrpc" member ("<absent>" when missing)              *)
(*   method  : the "method" member: "<absent>", "<nonstring>", or a string *)
(*             (the empty string included)                                 *)
(*   params  : "dict" (missing, an object or an array: get_params turns    *)
(*             each into a dict) or "scalar" (anything else)               *)
(*   id      : the "id" member; NoId when absent or null.  The client     *)
(*             numbers its requests: the k-th message carries id k or none *)
(*   resp    : the "result"/"error" members of a response-shaped message   *)
(***************************************************************************)
NoId == 0
Ids == 1..MaxMsgs
Conns == 1..MaxConns

Absent == "<absent>"
NonString == "<nonstring>"
WsMethods == {"ws.cmd", "both.cmd"}         \* keys of ws command_handlers
BrainMethods == {"brain.cmd", "both.cmd"}   \* keys of brain.commands
MethodStrings == {"", "ws.cmd", "brain.cmd", "both.cmd", "nope"}

\* Requests of the right version, requests of a wrong or missing version,
\* response-shaped messages (no method), and texts that are no JSON object.
RequestMessages(ids) ==
    [json : {"object"}, jsonrpc : {"2.0"},
     method : MethodStrings \cup {NonString},
     params : {"dict", "scalar"}, id : ids, resp : {"none"}]

BadVersionMessages(ids) ==
    [json : {"object"}, jsonrpc : {Absent, "1.0"}, method : {"ws.cmd"},
     params : {"dict"}, id : ids, resp : {"none"}]

ResponseMessages(ids) ==
    [json : {"object"}, jsonrpc : {"2.0"}, method : {Absent},
     params : {"dict"}, id : ids,
     resp : {"none", "result", "error_ok", "error_bad", "both"}]

OtherMessages ==
    [json : {"invalid", "scalar", "array"}, jsonrpc : {Absent},
     method : {Absent}, params : {"dict"}, id : {NoId}, resp : {"none"}]

\* The messages the k-th read can deliver.
Messages(k) ==
    RequestMessages({NoId, k}) \cup BadVersionMessages({NoId, k})
    \cup ResponseMessages({NoId, k}) \cup OtherMessages

NoMsg == [json |-> "none", jsonrpc |-> Absent, method |-> Absent,
          params |-> "dict", id |-> NoId, resp |-> "none"]

(***************************************************************************)
(* utils.py: the JSON-RPC helpers.                                         *)
(***************************************************************************)
\* An outbound response: type "result" or "error"; code 0 for a result;
\* ser is FALSE when json.dumps cannot encode the handler's result.
build_response(ser, request_id) ==
    [type |-> "result", code |-> 0, id |-> request_id, ser |-> ser]

build_error(code, request_id) ==
    [type |-> "error", code |-> code, id |-> request_id, ser |-> TRUE]

build_internal_error(request_id) ==
    build_error(JSONRPC_INTERNAL_ERROR, request_id)

build_method_not_found(request_id) ==
    build_error(JSONRPC_METHOD_NOT_FOUND, request_id)

\* validate_jsonrpc_message on a JSON object: 0 when it passes, else the
\* code of the JSONRPCError it raises.
validate_jsonrpc_message(m) ==
    IF m.jsonrpc = Absent THEN JSONRPC_INVALID_REQUEST
    ELSE IF m.jsonrpc # JSONRPC_VERSION THEN JSONRPC_INVALID_REQUEST
    ELSE IF m.method # Absent
         THEN IF m.method = NonString THEN JSONRPC_INVALID_REQUEST
              ELSE IF m.params = "scalar" THEN JSONRPC_INVALID_PARAMS
              ELSE 0
    ELSE IF m.resp # "none"
         THEN IF m.resp = "both" THEN JSONRPC_INVALID_REQUEST
              ELSE IF m.resp = "error_bad" THEN JSONRPC_INVALID_REQUEST
              ELSE 0
    ELSE JSONRPC_INVALID_REQUEST

get_request_id(m) == m.id

\* get_method: None when the member is missing.
get_method(m) == m.method

\* Python truthiness of the extracted method ("if not method").
MethodIsFalsy(method) == method = Absent \/ method = ""

(***************************************************************************)
(* websocket_server.py: handle_message.                                    *)
(***************************************************************************)
\* What handle_message does with a message before it awaits anything:
\*   "parse_error"  json.loads raised            (logged)
\*   "unexpected"   another exception            (logged, self.close())
\*   "invalid"      validate raised JSONRPCError (logged)
\*   "no_method"    the early return
\*   "ws" / "brain" a handler of that table is awaited
\*   "not_found"    no handler
Route(m, hasBrain) ==
    IF m.json = "invalid" THEN "parse_error"
    ELSE IF m.json = "scalar" THEN "unexpected"
    ELSE IF m.json = "array" THEN "invalid"
    ELSE IF validate_jsonrpc_message(m) # 0 THEN "invalid"
    ELSE IF MethodIsFalsy(get_method(m)) THEN "no_method"
    ELSE IF get_method(m) \in WsMethods THEN "ws"
    ELSE IF hasBrain /\ get_method(m) \in BrainMethods THEN "brain"
    ELSE "not_found"

\* The messages handle_message passes to self.send, in order, on the routes
\* that await no handler.
SendsOnRpcError(route, m) == <<>>

SendsOnNotFound(m) == <<build_method_not_found(get_request_id(m))>>

SendsNoHandler(route, m) ==
    IF route = "not_found" THEN SendsOnNotFound(m)
    ELSE IF route = "no_method" THEN <<>>
    ELSE SendsOnRpcError(route, m)

\* ... when the handler returned (ser: its result can be JSON encoded).  The
\* ws branch sends inside its try block and falls through to the shared
\* "if handler_found" send.
SendsOnReturn(table, ser, m) ==
    IF table = "ws"
    THEN <<build_response(ser, get_request_id(m)),
           build_response(ser, get_request_id(m))>>
    ELSE <<build_response(ser, get_request_id(m))>>

\* ... when the handler raised: one internal error, then return.
SendsOnRaiseFallThrough(table, m) ==
    <<build_internal_error(get_request_id(m)),
      build_response(TRUE, get_request_id(m))>>

SendsOnRaise(table, m) == <<build_internal_error(get_request_id(m))>>

\* handle_message itself calls self.close() only in its last except clause.
ClosesOnRoute(route) == route = "unexpected"

(***************************************************************************)
(* websocket_server.py: send and close.  net is [wire, transport].         *)
(***************************************************************************)
\* close(): initiates the close of the current connection, if any.
CloseNet(net, conn) ==
    IF conn = 0 THEN net
    ELSE [net EXCEPT !.transport[conn] = IF @ = "up" THEN "closing" ELSE @]

\* send(data): dropped with a warning when there is no connection; written
\* when the socket takes it; an exception of json.dumps or of the socket is
\* logged and followed by close().
SendOne(net, conn, data) ==
    IF conn = 0 THEN net
    ELSE IF net.transport[conn] = "up" /\ data.ser
         THEN [net EXCEPT !.wire[conn] = Append(@, data)]
    ELSE CloseNet(net, conn)

RECURSIVE SendAll(_, _, _)
SendAll(net, conn, msgs) ==
    IF msgs = <<>> THEN net
    ELSE SendAll(SendOne(net, conn, Head(msgs)), conn, Tail(msgs))

Net == [wire |-> wire, transport |-> transport]

\* The connection can take a write now.
CanWrite == connection # 0 /\ transport[connection] = "up"

\* The history record of one handle_message.
LogEntry(c, m, route, outcome, sends, net2, closeCalled) ==
    [conn |-> c, msg |-> m, route |-> route, outcome |-> outcome,
     sends |-> sends, up |-> CanWrite,
     written |-> IF connection = 0 THEN <<>>
                 ELSE SubSeq(net2.wire[connection],
                             Len(wire[connection]) + 1,
                             Len(net2.wire[connection])),
     closeCalled |-> closeCalled,
     closing |-> connection # 0 /\ transport[connection] = "up"
                 /\ net2.transport[connection] # "up"]

NoEntry ==
    [conn |-> 0, msg |-> NoMsg, route |-> "none", outcome |-> "none",
     sends |-> <<>>, up |-> FALSE, written |-> <<>>, closeCalled |-> FALSE,
     closing |-> FALSE]

\* What the history keeps of the call before the last one.
Brief(entry) ==
    [conn |-> entry.conn, id |-> entry.msg.id, route |-> entry.route,
     outcome |-> entry.outcome, up |-> entry.up, closing |-> entry.closing]

(***************************************************************************)
(* Actions of the RPC boundary.                                            *)
(***************************************************************************)
\* handle_connection is entered for a new websocket.  SpecRpc models one
\* client at a time: a connection is accepted when no other read loop runs.
Accept(c) ==
    /\ c = connCount + 1
    /\ c \in Conns
    /\ \A d \in Conns : loopPc[d] \in {"none", "ended"}
    /\ connCount' = c
    /\ connection' = c
    /\ loopPc' = [loopPc EXCEPT ![c] = "idle"]
    /\ transport' = [transport EXCEPT ![c] = "up"]
    /\ UNCHANGED <<brainAttached, wire, cur, handled, rpcLast, rpcPrev>>
    /\ UNCHANGED <<busVars, regVars, loadVars, extVars>>

\* The read loop takes a message and handle_message runs up to its first
\* await: either the whole of it (no handler), or up to the handler call.
Receive(c, m) ==
    /\ loopPc[c] = "idle"
    /\ transport[c] \in {"up", "closing"}
    /\ handled < MaxMsgs
    /\ handled' = handled + 1
    /\ LET route == Route(m, brainAttached) IN
       IF route \in {"ws", "brain"}
       THEN /\ loopPc' = [loopPc EXCEPT ![c] = "handler"]
            /\ cur' = [cur EXCEPT ![c] = m]
            /\ UNCHANGED <<wire, transport, rpcLast, rpcPrev>>
       ELSE LET sends == SendsNoHandler(route, m)
                net1 == SendAll(Net, connection, sends)
                net2 == IF ClosesOnRoute(route)
                        THEN CloseNet(net1, connection) ELSE net1
            IN /\ wire' = net2.wire
               /\ transport' = net2.transport
               /\ rpcLast' = LogEntry(c, m, route, "none", sends, net2,
                                      ClosesOnRoute(route))
               /\ rpcPrev' = Brief(rpcLast)
               /\ UNCHANGED <<loopPc, cur>>
    /\ UNCHANGED <<connection, connCount, brainAttached>>
    /\ UNCHANGED <<busVars, regVars, loadVars, extVars>>

\* The awaited handler returns a result.
HandlerReturn(c, ser) ==
    /\ loopPc[c] = "handler"
    /\ LET m == cur[c]
           route == Route(m, brainAttached)
           sends == SendsOnReturn(route, ser, m)
           net2 == SendAll(Net, connection, sends)
       IN /\ wire' = net2.wire
          /\ transport' = net2.transport
          /\ rpcLast' = LogEntry(c, m, route, "return", sends, net2, FALSE)
          /\ rpcPrev' = Brief(rpcLast)
    /\ loopPc' = [loopPc EXCEPT ![c] = "idle"]
    /\ cur' = [cur EXCEPT ![c] = NoMsg]
    /\ UNCHANGED <<connection, connCount, brainAttached, handled>>
    /\ UNCHANGED <<busVars, regVars, loadVars, extVars>>

\* The awaited handler raises an Exception.
HandlerRaise(c) ==
    /\ loopPc[c] = "handler"
    /\ LET m == cur[c]
           route == Route(m, brainAttached)
           sends == SendsOnRaise(route, m)
           net2 == SendAll(Net, connection, sends)
       IN /\ wire' = net2.wire
          /\ transport' = net2.transport
          /\ rpcLast' = LogEntry(c, m, route, "raise", sends, net2, FALSE)
          /\ rpcPrev' = Brief(rpcLast)
    /\ loopPc' = [loopPc EXCEPT ![c] = "idle"]
    /\ cur' = [cur EXCEPT ![c] = NoMsg]
    /\ UNCHANGED <<connection, connCount, brainAttached, handled>>
    /\ UNCHANGED <<busVars, regVars, loadVars, extVars>>

\* The peer closes its side of the socket.
PeerClose(c) ==
    /\ loopPc[c] \in {"idle", "handler"}
    /\ transport[c] \in {"up", "closing"}
    /\ transport' = [transport EXCEPT ![c] = "gone"]
    /\ UNCHANGED <<connection, connCount, brainAttached, loopPc, wire, cur,
                   handled, rpcLast, rpcPrev>>
    /\ UNCHANGED <<busVars, regVars, loadVars, extVars>>

\* The read loop of a closed socket ends; finally: self.connection = None.
LoopEnd(c) ==
    /\ loopPc[c] = "idle"
    /\ transport[c] \in {"closing", "gone"}
    /\ loopPc' = [loopPc EXCEPT ![c] = "ended"]
    /\ connection' = 0
    /\ UNCHANGED <<connCount, brainAttached, transport, wire, cur, handled,
                   rpcLast, rpcPrev>>
    /\ UNCHANGED <<busVars, regVars, loadVars, extVars>>

(***************************************************************************)
(* event_bus.py: EventBus.                                                 *)
(***************************************************************************)
Events == {"e1", "e2"}
Handlers == {"h1", "h2"}
Priorities == {0, 1, 2}

\* A subscriber entry is the tuple (priority, handler); ser is history: the
\* number of the subscribe call that made it.
SubEntry(priority, handler, ser) ==
    [prio |-> priority, h |-> handler, ser |-> ser]

\* One step of list.sort(key=priority, reverse=True), which is stable: the
\* entry goes behind every entry whose priority is not lower.
InsertByPriorityUnstable(sorted, e) ==
    LET n == Cardinality({i \in 1..Len(sorted) : sorted[i].prio > e.prio})
    IN SubSeq(sorted, 1, n) \o <<e>> \o SubSeq(sorted, n + 1, Len(sorted))

InsertByPriority(sorted, e) ==
    LET n == Cardinality({i \in 1..Len(sorted) : sorted[i].prio >= e.prio})
    IN SubSeq(sorted, 1, n) \o <<e>> \o SubSeq(sorted, n + 1, Len(sorted))

RECURSIVE SortByPriorityDesc(_)
SortByPriorityDesc(list) ==
    IF list = <<>> THEN <<>>
    ELSE InsertByPriority(SortByPriorityDesc(SubSeq(list, 1, Len(list) - 1)),
                          list[Len(list)])

\* subscribe: append, then sort.
SubscribeList(list, e) == SortByPriorityDesc(Append(list, e))

\* unsubscribe: pop the first entry of that handler, if any.
FirstIndexOf(list, handler) ==
    IF \E i \in 1..Len(list) : list[i].h = handler
    THEN CHOOSE i \in 1..Len(list) :
            /\ list[i].h = handler
            /\ \A j \in 1..(i - 1) : list[j].h # handler
    ELSE 0

UnsubscribeList(list, handler) ==
    LET i == FirstIndexOf(list, handler)
    IN IF i = 0 THEN list
       ELSE SubSeq(list, 1, i - 1) \o SubSeq(list, i + 1, Len(list))

\* publish: "handlers = [h for _, h in priority_handlers]" copies the list
\* when publish begins; the loops run over that copy.
DispatchListLive(snapshot, live) == live

DispatchList(snapshot, live) == snapshot

\* safe_exec: an Exception of the handler is logged, never passed on.
EscapesUncaught(outcome) == outcome = "raise"

Escapes(outcome) == FALSE

\* A handler may start when the ones before it have started and, in
\* sequential mode, terminated (the for loop awaits each safe_exec).
MayStart(call) ==
    call.sequential => \A j \in 1..Len(call.hst) : call.hst[j] # "running"

IdlePub ==
    [st |-> "idle", event |-> "e1", sequential |-> FALSE, snap |-> <<>>,
     atBegin |-> <<>>, started |-> <<>>, hst |-> <<>>, mutated |-> FALSE]

\* The publish call in progress on that event sees the list change.
MarkMutated(event) ==
    IF pub.st = "running" /\ pub.event = event
    THEN [pub EXCEPT !.mutated = TRUE] ELSE pub

Subscribe(event, handler, priority) ==
    /\ subSerial < MaxSubscribes
    /\ subSerial' = subSerial + 1
    /\ subscribers' = [subscribers EXCEPT ![event] =
           SubscribeList(@, SubEntry(priority, handler, subSerial + 1))]
    /\ pub' = MarkMutated(event)
    /\ UNCHANGED <<pubCount, rpcVars, regVars, loadVars, extVars>>

Unsubscribe(event, handler) ==
    /\ FirstIndexOf(subscribers[event], handler) # 0
    /\ subscribers' = [subscribers EXCEPT ![event] =
           UnsubscribeList(@, handler)]
    /\ pub' = MarkMutated(event)
    /\ UNCHANGED <<subSerial, pubCount, rpcVars, regVars, loadVars, extVars>>

ClearSubscribers(event) ==
    /\ subscribers[event] # <<>>
    /\ subscribers' = [subscribers EXCEPT ![event] = <<>>]
    /\ pub' = MarkMutated(event)
    /\ UNCHANGED <<subSerial, pubCount, rpcVars, regVars, loadVars, extVars>>

\* publish is called: with no subscriber it returns at once.
PublishBegin(event, sequential) ==
    /\ pub.st \in {"idle", "returned"}
    /\ pubCount < MaxPubs
    /\ pubCount' = pubCount + 1
    /\ pub' = [st |-> IF subscribers[event] = <<>> THEN "returned"
                      ELSE "running",
               event |-> event, sequential |-> sequential,
               snap |-> subscribers[event], atBegin |-> subscribers[event],
               started |-> <<>>, hst |-> <<>>, mutated |-> FALSE]
    /\ UNCHANGED <<subscribers, subSerial, rpcVars, regVars, loadVars, extVars>>

\* safe_exec(h) of the next handler of the dispatch list starts.
HandlerStart ==
    LET list == DispatchList(pub.snap, subscribers[pub.event])
        i == Len(pub.started) + 1
    IN /\ pub.st = "running"
       /\ i <= Len(list)
       /\ MayStart(pub)
       /\ pub' = [pub EXCEPT !.started = Append(@, list[i]),
                             !.hst = Append(@, "running")]
       /\ UNCHANGED <<subscribers, subSerial, pubCount, rpcVars, regVars, loadVars, extVars>>

\* A running handler terminates: it returns ("ok") or raises ("raise").
HandlerEnd(j, outcome) ==
    /\ pub.st \in {"running", "raised"}
    /\ j \in 1..Len(pub.hst)
    /\ pub.hst[j] = "running"
    /\ pub' = [pub EXCEPT
           !.hst[j] = IF outcome = "raise" THEN "failed" ELSE "ok",
           !.st = IF Escapes(outcome) THEN "raised" ELSE @]
    /\ UNCHANGED <<subscribers, subSerial, pubCount, rpcVars, regVars, loadVars, extVars>>

\* The loop, or gather, is over: publish returns.
PublishReturn ==
    LET list == DispatchList(pub.snap, subscribers[pub.event])
    IN /\ pub.st = "running"
       /\ Len(pub.started) >= Len(list)
       /\ \A j \in 1..Len(pub.hst) : pub.hst[j] # "running"
       /\ pub' = [pub EXCEPT !.st = "returned"]
       /\ UNCHANGED <<subscribers, subSerial, pubCount, rpcVars, regVars, loadVars, extVars>>

InitBusVars ==
    /\ subscribers = [e \in Events |-> <<>>]
    /\ subSerial = 0
    /\ pubCount = 0
    /\ pub = IdlePub

NextBus ==
    \/ \E e \in Events, h \in Handlers, pr \in Priorities : Subscribe(e, h, pr)
    \/ \E e \in Events, h \in Handlers : Unsubscribe(e, h)
    \/ \E e \in Events : ClearSubscribers(e)
    \/ \E e \in Events, sq \in BOOLEAN : PublishBegin(e, sq)
    \/ HandlerStart
    \/ \E j \in 1..MaxSubscribes, o \in {"ok", "raise"} : HandlerEnd(j, o)
    \/ PublishReturn

(***************************************************************************)
(* vault_brain.py: the command registry.                                   *)
(***************************************************************************)
CORE_PLUGIN_NAME == "core"
PluginNames == <<"alpha", "beta">>   \* the plugin directories, by name
PluginIds == {PluginNames[i] : i \in 1..Len(PluginNames)}
CoreIds == {"system.chat"}        \* ids of the built-in (decorated) commands
CommandIds == {"X"} \cup CoreIds
Owners == PluginIds \cup {CORE_PLUGIN_NAME}

\* The record self.commands[id], or NoRecord when id is not a key.
NoRecord == [id |-> "<none>", handler |-> "<none>", plugin |-> "<none>"]

Lookup(cmds, id) ==
    IF \E r \in cmds : r.id = id
    THEN CHOOSE r \in cmds : r.id = id
    ELSE NoRecord

IsBound(cmds, id) == \E r \in cmds : r.id = id

\* register_command: a handler that is no coroutine function is refused
\* (CommandRegistrationError); otherwise self.commands[id] is assigned, the
\* override flag choosing only the log line.
RegisterCommandKeepUnlessOverride(cmds, id, handler, owner, override, isAsync) ==
    IF ~isAsync THEN cmds
    ELSE IF IsBound(cmds, id) /\ ~override THEN cmds
    ELSE {r \in cmds : r.id # id}
         \cup {[id |-> id, handler |-> handler, plugin |-> owner]}

RegisterCommandHonorOverride(cmds, id, handler, owner, override, isAsync) ==
    IF ~isAsync THEN cmds
    ELSE IF IsBound(cmds, id) /\ ~override
            /\ Lookup(cmds, id).handler.override THEN cmds
    ELSE {r \in cmds : r.id # id}
         \cup {[id |-> id, handler |-> handler, plugin |-> owner]}

RegisterCommand(cmds, id, handler, owner, override, isAsync) ==
    IF ~isAsync THEN cmds
    ELSE {r \in cmds : r.id # id}
         \cup {[id |-> id, handler |-> handler, plugin |-> owner]}

\* unregister_command: del self.commands[id] when present.
UnregisterCommand(cmds, id) == {r \in cmds : r.id # id}

\* execute_command: the handler it awaits is the one of self.commands[id]
\* (NoRecord's when id is no key: CommandNotFoundError).
ExecutedHandler(cmds, id) == Lookup(cmds, id).handler

\* A handler is named by who defined it, in which phase it was registered
\* and with which override flag (phase 0: any time after load).
HandlerOf(owner, phase, override) ==
    [by |-> owner, phase |-> phase, override |-> override]

NoCall == [kind |-> "none", id |-> "<none>",
           handler |-> HandlerOf("<none>", 0, FALSE), owner |-> "<none>",
           override |-> FALSE, isAsync |-> FALSE, before |-> {}]

\* A caller registers a command.
Register(id, owner, override, isAsync) ==
    LET h == HandlerOf(owner, 0, override) IN
    /\ commands' = RegisterCommand(commands, id, h, owner, override, isAsync)
    /\ lastReg' = [kind |-> "register", id |-> id, handler |-> h,
                   owner |-> owner, override |-> override,
                   isAsync |-> isAsync, before |-> commands]
    /\ UNCHANGED <<rpcVars, busVars, loadVars, extVars>>

\* A caller unregisters a command.
Unregister(id) ==
    /\ commands' = UnregisterCommand(commands, id)
    /\ lastReg' = [NoCall EXCEPT !.kind = "unregister", !.id = id,
                                 !.before = commands]
    /\ UNCHANGED <<rpcVars, busVars, loadVars, extVars>>

(***************************************************************************)
(* vault_brain.py: the plugin host (initialize, _load_plugins,             *)
(* _activate_plugins, _register_decorated_handlers).                       *)
(***************************************************************************)
\* What a plugin directory holds:
\*   mode "disabled"   merged config has no true "enabled"
\*        "init_fail"  loading the module or the constructor raises
\*        "reg_fail"   register_commands raises after its registrations
\*        "load_fail"  on_load raises after its registrations
\*        "ok"
\*   reg1  the register_command call of register_commands (or none)
\*   reg2  the register_command call of on_load (or none)
Modes == {"ok", "disabled", "init_fail", "reg_fail", "load_fail"}
NoRegistration == [id |-> "<none>", override |-> FALSE]
Registrations == {NoRegistration} \cup [id : CommandIds, override : BOOLEAN]
PluginDirs == [mode : Modes, reg1 : Registrations, reg2 : Registrations]

\* sorted(plugin_dirs, key=name): the directories found, by name.
NameRank(name) == CHOOSE i \in 1..Len(PluginNames) : PluginNames[i] = name

RECURSIVE SortedByName(_)
SortedByName(S) ==
    IF S = {} THEN <<>>
    ELSE LET m == CHOOSE x \in S : \A y \in S : NameRank(x) <= NameRank(y)
         IN <<m>> \o SortedByName(S \ {m})

PluginOrder == SortedByName(PluginIds)

\* The register_command call a plugin makes in a phase, applied.
ApplyRegistration(cmds, plugin, phase, reg) ==
    IF reg = NoRegistration THEN cmds
    ELSE RegisterCommand(cmds, reg.id,
                         HandlerOf(plugin, phase, reg.override),
                         plugin, reg.override, TRUE)

\* Phase 1 of one plugin directory: config check, instantiation,
\* register_commands; the plugin is stored only when nothing raised.
RunsRegisterCommands(mode) == mode \in {"ok", "reg_fail", "load_fail"}
IsStored(mode) == mode \in {"ok", "load_fail"}

LoadPlugin ==
    /\ loadPc = "phase1"
    /\ loadIdx <= Len(PluginOrder)
    /\ LET p == PluginOrder[loadIdx]
           d == disk[p]
       IN /\ commands' = IF RunsRegisterCommands(d.mode)
                         THEN ApplyRegistration(commands, p, 1, d.reg1)
                         ELSE commands
          /\ plugins' = IF IsStored(d.mode) THEN Append(plugins, p)
                        ELSE plugins
    /\ loadIdx' = loadIdx + 1
    /\ UNCHANGED <<extVars, rpcVars, busVars, lastReg, disk, loadPc>>

\* _load_plugins returns; initialize goes on to _activate_plugins.
LoadDone ==
    /\ loadPc = "phase1"
    /\ loadIdx > Len(PluginOrder)
    /\ loadPc' = "phase2"
    /\ loadIdx' = 1
    /\ UNCHANGED <<extVars, rpcVars, busVars, regVars, plugins, disk>>

\* Phase 2 of one stored plugin: on_load (an exception is logged).
ActivatePlugin ==
    /\ loadPc = "phase2"
    /\ loadIdx <= Len(plugins)
    /\ LET p == plugins[loadIdx]
       IN commands' = ApplyRegistration(commands, p, 2, disk[p].reg2)
    /\ loadIdx' = loadIdx + 1
    /\ UNCHANGED <<extVars, rpcVars, busVars, lastReg, plugins, disk, loadPc>>

\* _register_decorated_handlers: every built-in command is registered with
\* owner core and without the override flag; initialize is complete.
RECURSIVE RegisterAll(_, _)
RegisterAll(cmds, ids) ==
    IF ids = {} THEN cmds
    ELSE LET id == CHOOSE x \in ids : TRUE
         IN RegisterAll(RegisterCommand(cmds, id,
                            HandlerOf(CORE_PLUGIN_NAME, 0, FALSE),
                            CORE_PLUGIN_NAME, FALSE, TRUE),
                        ids \ {id})

RegisterCore ==
    /\ loadPc = "phase2"
    /\ loadIdx > Len(plugins)
    /\ commands' = RegisterAll(commands, CoreIds)
    /\ loadPc' = "done"
    /\ UNCHANGED <<extVars, rpcVars, busVars, lastReg, plugins, disk, loadIdx>>

InitRegVars ==
    /\ commands = {}
    /\ lastReg = NoCall

InitLoadVars ==
    /\ plugins = <<>>
    /\ disk \in [PluginIds -> PluginDirs]
    /\ loadPc = "phase1"
    /\ loadIdx = 1

\* No plugin directory, initialize complete: the registry alone.
IdleLoadVars ==
    /\ plugins = <<>>
    /\ disk = [p \in PluginIds |->
                 [mode |-> "disabled", reg1 |-> NoRegistration,
                  reg2 |-> NoRegistration]]
    /\ loadPc = "done"
    /\ loadIdx = 1

NextReg ==
    \/ \E id \in CommandIds, o \in Owners, ov \in BOOLEAN, a \in BOOLEAN :
          Register(id, o, ov, a)
    \/ \E id \in CommandIds : Unregister(id)

NextLoad ==
    \/ LoadPlugin
    \/ LoadDone
    \/ ActivatePlugin
    \/ RegisterCore

InitRpcVars ==
    /\ connection = 0
    /\ connCount = 0
    /\ brainAttached \in BOOLEAN
    /\ loopPc = [c \in Conns |-> "none"]
    /\ transport = [c \in Conns |-> "none"]
    /\ wire = [c \in Conns |-> <<>>]
    /\ cur = [c \in Conns |-> NoMsg]
    /\ handled = 0
    /\ rpcLast = NoEntry
    /\ rpcPrev = Brief(NoEntry)

NextRpc ==
    \/ \E c \in Conns : Accept(c)
    \/ \E c \in Conns, m \in Messages(handled + 1) : Receive(c, m)
    \/ \E c \in Conns, ser \in BOOLEAN : HandlerReturn(c, ser)
    \/ \E c \in Conns : HandlerRaise(c)
    \/ \E c \in Conns : PeerClose(c)
    \/ \E c \in Conns : LoopEnd(c)

(***************************************************************************)
(* vault_brain.py: execute_command.                                        *)
(***************************************************************************)
MaxExecs == 2       \* execute_command calls in one run

COMMAND_EXECUTED == "command:executed"

\* The ids CommandNotFoundError carries: list(self.commands.keys()).
KnownIds(cmds) == {r.id : r \in cmds}

NoHandler == HandlerOf("<none>", 0, FALSE)

\* The create_task(publish(COMMAND_EXECUTED, ...)) is the statement after
\* the awaited handler inside the try block: reached only when it returned.
SchedulesEventAlways(outcome) == TRUE

SchedulesEvent(outcome) == outcome = "return"

\* What execute_command is left with when the awaited handler ends.
ExecOutcome(outcome) ==
    IF outcome = "return" THEN "returned" ELSE "CommandExecutionError"

IdleExec ==
    [st |-> "idle", id |-> "<none>", handler |-> NoHandler,
     outcome |-> "none", invoked |-> 0, known |-> {}, cause |-> "none",
     value |-> "none", nsched |-> 0, regBefore |-> {}, regAfter |-> {}]

\* execute_command(id) is called: the lookup, and either the
\* CommandNotFoundError or the call of the handler.
ExecuteBegin(id) ==
    /\ exec.st \in {"idle", "done"}
    /\ execCount < MaxExecs
    /\ execCount' = execCount + 1
    /\ exec' =
         IF IsBound(commands, id)
         THEN [IdleExec EXCEPT !.st = "running", !.id = id,
                  !.handler = ExecutedHandler(commands, id), !.invoked = 1,
                  !.regBefore = commands, !.regAfter = commands]
         ELSE [IdleExec EXCEPT !.st = "done", !.id = id,
                  !.outcome = "CommandNotFound",
                  !.known = KnownIds(commands),
                  !.regBefore = commands, !.regAfter = commands]
    /\ UNCHANGED <<scheduled, rpcVars, busVars, regVars, loadVars, pipeVars, streamVars, hostVars,
                   chatVars, callVars, outVars, queueVars, msgVars, memVars>>

\* The awaited handler returns a value or raises an Exception.
ExecuteHandlerEnd(outcome) ==
    /\ exec.st = "running"
    /\ scheduled' =
         IF SchedulesEvent(outcome)
         THEN Append(scheduled, [event |-> COMMAND_EXECUTED,
                                 command_id |-> exec.id,
                                 result_status |-> "success"])
         ELSE scheduled
    /\ exec' = [exec EXCEPT
         !.st = "done",
         !.outcome = ExecOutcome(outcome),
         !.cause = IF outcome = "raise" THEN "handler error" ELSE "none",
         !.value = IF outcome = "return" THEN "handler value" ELSE "none",
         !.nsched = Len(scheduled') - Len(scheduled),
         !.regBefore = commands, !.regAfter = commands]
    /\ UNCHANGED <<execCount, rpcVars, busVars, regVars, loadVars, pipeVars, streamVars, hostVars,
                   chatVars, callVars, outVars, queueVars, msgVars, memVars>>

InitExecVars ==
    /\ exec = IdleExec
    /\ scheduled = <<>>
    /\ execCount = 0

\* The registries execute_command can find: each id unbound, or bound by
\* a register_command call of some owner.
RegistryOf(f) ==
    {[id |-> id, handler |-> HandlerOf(f[id], 0, FALSE), plugin |-> f[id]] :
        id \in {i \in CommandIds : f[i] # "<none>"}}

Registries == {RegistryOf(f) : f \in [CommandIds -> Owners \cup {"<none>"}]}

NextExec ==
    \/ \E id \in CommandIds : ExecuteBegin(id)
    \/ \E o \in {"return", "raise"} : ExecuteHandlerEnd(o)

(***************************************************************************)
(* pipeline/: one chat turn through the graph (types.py, nodes.py,        *)
(* default.py), and the non-streaming chat.send around it (vault_brain.py).*)
(*                                                                         *)
(* The graph keeps one value per field of PipelineContext (chan).  A node  *)
(* is called with a context built from these values (state), the          *)
(* subscribers of its events change that context in place, and the fields  *)
(* of the dict the node returns replace the values the graph keeps.        *)
(***************************************************************************)
MaxTurns   == 2     \* chat.send calls in one run
MaxEffects == 2     \* publications of one turn whose subscribers do something

\* None, the empty string, a metadata key that is not set.
NoValue == <<>>

\* A response that is not a string: the graph refuses to build a
\* PipelineContext from it (response: Optional[str]).
NotAString == <<"non-string">>

NewContext(message) ==
    [original_message |-> message, response |-> NoValue,
     should_abort |-> FALSE, abort_reason |-> NoValue,
     generated_ids |-> NoValue, final_system_prompt |-> FALSE]

Nodes == {"input", "context", "prompt", "llm", "post_process", "output"}

\* _build_graph: the entry point, the linear edges, the finish point.
NextNodeLlmFirst(node) ==
    CASE node = "input"        -> "context"
      [] node = "context"      -> "llm"
      [] node = "llm"          -> "prompt"
      [] node = "prompt"       -> "post_process"
      [] node = "post_process" -> "output"
      [] node = "output"       -> "__end__"

NextNode(node) ==
    CASE node = "input"        -> "context"
      [] node = "context"      -> "prompt"
      [] node = "prompt"       -> "llm"
      [] node = "llm"          -> "post_process"
      [] node = "post_process" -> "output"
      [] node = "output"       -> "__end__"

\* The events a node publishes, in the order of its publish calls.
NodeEvents(node) ==
    CASE node = "input"        -> <<"START", "INPUT">>
      [] node = "context"      -> <<"CONTEXT">>
      [] node = "prompt"       -> <<"PROMPT">>
      [] node = "llm"          -> <<"LLM">>
      [] node = "post_process" -> <<"POST_PROCESS">>
      [] node = "output"       -> <<"OUTPUT", "END">>

\* The nodes that begin with "if state.should_abort: return {}".
ChecksAbortLate(node) == node = "post_process"

ChecksAbort(node) == node \in {"context", "prompt", "llm", "post_process"}

\* What the graph keeps after the node returned: context_node returns the
\* metadata and events_emitted only, the others return state.model_dump().
Returned(chan, state, node) ==
    IF node = "context"
    THEN [chan EXCEPT !.generated_ids = state.generated_ids,
                      !.final_system_prompt = state.final_system_prompt]
    ELSE state

\* What the subscribers of one publication do to the context they are given.
SubscriberEffects ==
    {"none", "raise", "abort", "set_response", "set_ids", "set_nonstring"}

Subscribed(ctx, ev, eff) ==
    CASE eff = "abort" ->
           [ctx EXCEPT !.should_abort = TRUE, !.abort_reason = <<"reason", ev>>]
      [] eff = "set_response" -> [ctx EXCEPT !.response = <<"subscriber", ev>>]
      [] eff = "set_ids" -> [ctx EXCEPT !.generated_ids = <<"ids", ev>>]
      [] eff = "set_nonstring" -> [ctx EXCEPT !.response = NotAString]
      [] OTHER -> ctx

\* "if state.response: return": a response that is there is kept.
KeepsResponseNever(ctx) == FALSE

KeepsResponse(ctx) == ctx.response # NoValue

\* llm_node catches the Exception of the collaborator.
LlmEscapesUncaught(outcome) == outcome = "fail"

LlmEscapes(outcome) == FALSE

\* The collaborator is reached when the pipeline has an LLM service.
CallsCollaborator(outcome) == outcome \in {"ok", "fail"}

LlmResponse(outcome) ==
    CASE outcome = "placeholder" -> <<"[Demo Mode] Echo">>
      [] outcome = "unavailable" -> <<"[Error]", "LLM service not initialized">>
      [] outcome = "ok"          -> <<"llm content">>
      [] outcome = "fail"        -> <<"[Error]", "llm exception">>

\* "if not self.llm_client or not hasattr(self.llm_client, 'llm_service')":
\* llm_node answers with the placeholder.
UsesPlaceholder(hasClient, hasServiceAttribute) ==
    ~hasClient \/ ~hasServiceAttribute

\* What the built-in LLM work of a chat.send turn can come to.
\* DefaultPipeline makes its nodes with PipelineNodes(self): the client is
\* the pipeline itself, and llm_service is a property of it.
LlmOutcomes ==
    IF UsesPlaceholder(TRUE, TRUE) THEN {"placeholder"}
    ELSE {"unavailable", "ok", "fail"}

NoResult == [status |-> "none", response |-> NoValue,
             message_ids |-> NoValue, error |-> NoValue]

IdlePipe ==
    [node |-> "idle", at |-> "none", state |-> NewContext(0),
     chan |-> NewContext(0), effects |-> 0, llm_calls |-> 0,
     returned |-> NewContext(0), result |-> NoResult]

Entry(kind, name, sequential, ctx, eff) ==
    [kind |-> kind, name |-> name, sequential |-> sequential, ctx |-> ctx,
     eff |-> eff]

\* chat.send(message, stream=False): without a message it returns an error;
\* otherwise run builds the initial context and invokes the graph.
ChatSend(message) ==
    /\ pipe.node \in {"idle", "done"}
    /\ turns < MaxTurns
    /\ turns' = turns + 1
    /\ trace' = <<>>
    /\ pipe' =
         IF message = 0
         THEN [IdlePipe EXCEPT !.node = "done",
                  !.result = [NoResult EXCEPT !.status = "error",
                                 !.error = <<"message is required">>]]
         ELSE [IdlePipe EXCEPT !.node = "input", !.at = "enter",
                  !.chan = NewContext(message), !.state = NewContext(message)]
    /\ UNCHANGED <<rpcVars, busVars, regVars, loadVars, execVars, streamVars, hostVars,
                   chatVars, callVars, outVars, queueVars, msgVars, memVars>>

\* The graph calls the next node: it builds the node's context, and the node
\* runs up to its first publish.
NodeEnter ==
    /\ pipe.node \in Nodes
    /\ pipe.at = "enter"
    /\ IF pipe.chan.response = NotAString
       THEN /\ pipe' = [pipe EXCEPT !.node = "__raised__", !.at = "return"]
            /\ UNCHANGED trace
       ELSE IF ChecksAbort(pipe.node) /\ pipe.chan.should_abort
       THEN /\ pipe' = [pipe EXCEPT !.state = pipe.chan,
                           !.node = NextNode(pipe.node)]
            /\ trace' = Append(trace,
                   Entry("skip", pipe.node, FALSE, pipe.chan, "none"))
       ELSE IF pipe.node = "prompt"
       THEN /\ pipe' = [pipe EXCEPT
                   !.state = [pipe.chan EXCEPT !.final_system_prompt = TRUE],
                   !.at = "event1"]
            /\ trace' = Append(trace,
                   Entry("work", "prompt", FALSE, pipe'.state, "none"))
       ELSE /\ pipe' = [pipe EXCEPT !.state = pipe.chan, !.at = "event1"]
            /\ UNCHANGED trace
    /\ UNCHANGED <<turns, rpcVars, busVars, regVars, loadVars, execVars, streamVars, hostVars,
                   chatVars, callVars, outVars, queueVars, msgVars, memVars>>

\* await self.brain.publish(event, sequential=True, ctx=state): the
\* subscribers run on the node's context; what they raise stays in the bus.
PublishStage(eff) ==
    /\ pipe.node \in Nodes
    /\ pipe.at \in {"event1", "event2"}
    /\ eff # "none" => pipe.effects < MaxEffects
    /\ LET k == IF pipe.at = "event1" THEN 1 ELSE 2
           ev == NodeEvents(pipe.node)[k]
       IN  /\ trace' = Append(trace, Entry("event", ev, TRUE, pipe.state, eff))
           /\ pipe' =
                IF eff = "raise" /\ Escapes(eff)
                THEN [pipe EXCEPT !.node = "__raised__", !.at = "return",
                         !.effects = @ + 1]
                ELSE [pipe EXCEPT
                         !.state = Subscribed(pipe.state, ev, eff),
                         !.effects = IF eff = "none" THEN @ ELSE @ + 1,
                         !.at = IF k < Len(NodeEvents(pipe.node)) THEN "event2"
                                ELSE IF pipe.node = "llm" THEN "work"
                                ELSE "return"]
    /\ UNCHANGED <<turns, rpcVars, busVars, regVars, loadVars, execVars, streamVars, hostVars,
                   chatVars, callVars, outVars, queueVars, msgVars, memVars>>

\* llm_node after its publish: a response that is already there is kept;
\* otherwise the placeholder, or the call of the collaborator.
LlmWork(outcome) ==
    /\ pipe.node = "llm"
    /\ pipe.at = "work"
    /\ IF KeepsResponse(pipe.state)
       THEN /\ pipe' = [pipe EXCEPT !.at = "return"]
            /\ UNCHANGED trace
       ELSE IF CallsCollaborator(outcome) /\ LlmEscapes(outcome)
       THEN /\ pipe' = [pipe EXCEPT !.node = "__raised__", !.at = "return",
                           !.llm_calls = @ + 1]
            /\ UNCHANGED trace
       ELSE /\ pipe' = [pipe EXCEPT
                   !.state = [@ EXCEPT !.response = LlmResponse(outcome)],
                   !.llm_calls = IF CallsCollaborator(outcome) THEN @ + 1 ELSE @,
                   !.at = "return"]
            /\ trace' = Append(trace,
                   Entry("work", "llm", FALSE, pipe'.state, outcome))
    /\ UNCHANGED <<turns, rpcVars, busVars, regVars, loadVars, execVars, streamVars, hostVars,
                   chatVars, callVars, outVars, queueVars, msgVars, memVars>>

\* The node returns and the graph takes over the fields it returned.
NodeReturn ==
    /\ pipe.node \in Nodes
    /\ pipe.at = "return"
    /\ pipe' = [pipe EXCEPT
         !.chan = Returned(pipe.chan, pipe.state, pipe.node),
         !.node = NextNode(pipe.node),
         !.at = IF NextNode(pipe.node) = "__end__" THEN "return" ELSE "enter"]
    /\ trace' = Append(trace,
           Entry("return", pipe.node, FALSE, pipe'.chan, "none"))
    /\ UNCHANGED <<turns, rpcVars, busVars, regVars, loadVars, execVars, streamVars, hostVars,
                   chatVars, callVars, outVars, queueVars, msgVars, memVars>>

\* What run returns: the context of the final values, or, when the graph
\* (or the construction of that context) raised, the initial context with
\* the error as its response.
RunResult(p) ==
    IF p.node = "__raised__" \/ p.chan.response = NotAString
    THEN [NewContext(p.chan.original_message) EXCEPT
             !.response = <<"Error:", "graph exception">>]
    ELSE p.chan

\* context.metadata.get("generated_ids", {}).
MessageIdsNone(ctx) == NoValue

MessageIds(ctx) == ctx.generated_ids

\* ainvoke ends, run returns the context and chat.send its result.
RunReturn ==
    /\ pipe.node \in {"__end__", "__raised__"}
    /\ pipe' = [pipe EXCEPT
         !.node = "done", !.at = "none",
         !.returned = RunResult(pipe),
         !.result = [status |-> "success",
                     response |-> RunResult(pipe).response,
                     message_ids |-> MessageIds(RunResult(pipe)),
                     error |-> NoValue]]
    /\ UNCHANGED <<trace, turns, rpcVars, busVars, regVars, loadVars, execVars, streamVars, hostVars,
                   chatVars, callVars, outVars, queueVars, msgVars, memVars>>

ChatMessages == {0, 1}   \* 0 is the empty message

InitPipeVars ==
    /\ pipe = IdlePipe
    /\ trace = <<>>
    /\ turns = 0

NextPipe ==
    \/ \E m \in ChatMessages : ChatSend(m)
    \/ NodeEnter
    \/ \E eff \in SubscriberEffects : PublishStage(eff)
    \/ \E o \in LlmOutcomes : LlmWork(o)
    \/ NodeReturn
    \/ RunReturn

(***************************************************************************)
(* vault_brain.py: the streaming chat.send (_stream_chat_response) and     *)
(* emit_to_frontend.  The names of the three stream event types are those  *)
(* the handler reads from constants.EventType.                             *)
(***************************************************************************)
MaxStreams == 2     \* streaming chat.send calls in one run
MaxTokens  == 2     \* tokens the pipeline yields in one stream

CHAT_STREAM_START == "CHAT_STREAM_START"
CHAT_TOKEN        == "CHAT_TOKEN"
CHAT_STREAM_END   == "CHAT_STREAM_END"

\* The tokens stream_run yields: strings of one or more characters.
Tokens == {<<"a">>, <<"b", "c">>}

\* full_response += token, from the empty string on.
RECURSIVE Concat(_)
Concat(tokens) ==
    IF tokens = <<>> THEN <<>>
    ELSE Head(tokens) \o Concat(Tail(tokens))

NoEvent ==
    [kind |-> "none", type |-> "none", stream_id |-> 0, token |-> NoValue,
     accumulated |-> NoValue, response |-> NoValue, status |-> "none",
     message_ids |-> NoValue, error |-> NoValue, sequential |-> FALSE,
     sent |-> FALSE]

\* emit_to_frontend(event_type, data): nothing is sent while no client is
\* connected; otherwise the event goes to send_to_rust.
IsSent(connected) == connected

EmitToFrontend(log, connected, event) ==
    Append(log, [event EXCEPT !.kind = "emit", !.sent = IsSent(connected)])

\* The context the handler builds for the OUTPUT subscribers.
OutputContextEmpty(message, full_response) == NewContext(message)

OutputContext(message, full_response) ==
    [NewContext(message) EXCEPT !.response = full_response]

\* The except branch ends the stream with the error and the partial response.
ErrorEndNoResponse(stream_id, full_response) ==
    [NoEvent EXCEPT !.type = CHAT_STREAM_END, !.stream_id = stream_id,
        !.status = "error", !.error = <<"exception">>]

ErrorEnd(stream_id, full_response) ==
    [NoEvent EXCEPT !.type = CHAT_STREAM_END, !.stream_id = stream_id,
        !.status = "error", !.error = <<"exception">>,
        !.response = full_response]

IdleStream ==
    [pc |-> "idle", stream_id |-> 0, message |-> 0, full_response |-> <<>>,
     yielded |-> <<>>, ctx |-> NewContext(0), how |-> "none",
     result |-> NoResult]

\* chat.send(message, stream=True): the stream gets its id, START is
\* emitted and the handler waits for the first token.
StreamBegin(message) ==
    /\ strm.pc \in {"idle", "done"}
    /\ streams < MaxStreams
    /\ streams' = streams + 1
    /\ closed' = IF strm.pc = "done" THEN closed \cup {strm.stream_id}
                 ELSE closed
    /\ strm' = [IdleStream EXCEPT !.pc = "tokens", !.stream_id = streams',
                   !.message = message]
    /\ emitted' = EmitToFrontend(<<>>, clientConnected,
           [NoEvent EXCEPT !.type = CHAT_STREAM_START, !.stream_id = streams'])
    /\ UNCHANGED <<clientConnected, rpcVars, busVars, regVars, loadVars,
                   execVars, pipeVars, hostVars, chatVars, callVars, outVars,
                   queueVars, msgVars, memVars>>

\* stream_run yields a token: it is appended and emitted.
TokenArrives(token) ==
    /\ strm.pc = "tokens"
    /\ Len(strm.yielded) < MaxTokens
    /\ strm' = [strm EXCEPT !.full_response = @ \o token,
                            !.yielded = Append(@, token)]
    /\ emitted' = EmitToFrontend(emitted, clientConnected,
           [NoEvent EXCEPT !.type = CHAT_TOKEN, !.stream_id = strm.stream_id,
               !.token = token, !.accumulated = strm'.full_response])
    /\ UNCHANGED <<clientConnected, streams, closed, rpcVars, busVars, regVars,
                   loadVars, execVars, pipeVars, hostVars, chatVars,
                   callVars, outVars, queueVars, msgVars, memVars>>

\* stream_run is exhausted: the handler builds the context and awaits the
\* sequential publish of OUTPUT.
SourceCompletes ==
    /\ strm.pc = "tokens"
    /\ strm' = [strm EXCEPT !.pc = "output",
                   !.ctx = OutputContext(strm.message, strm.full_response)]
    /\ emitted' = Append(emitted,
           [NoEvent EXCEPT !.kind = "publish", !.type = "OUTPUT",
               !.stream_id = strm.stream_id, !.sequential = TRUE,
               !.response = strm'.ctx.response])
    /\ UNCHANGED <<clientConnected, streams, closed, rpcVars, busVars, regVars,
                   loadVars, execVars, pipeVars, hostVars, chatVars,
                   callVars, outVars, queueVars, msgVars, memVars>>

\* The publish returns (what a subscriber raised stayed in the bus): END is
\* emitted and the handler returns its result.
OutputPublished(eff) ==
    /\ strm.pc = "output"
    /\ IF eff = "raise" /\ Escapes(eff)
       THEN /\ strm' = [strm EXCEPT !.pc = "done", !.how = eff,
                   !.result = [NoResult EXCEPT !.status = "error",
                                  !.error = <<"exception">>]]
            /\ emitted' = EmitToFrontend(emitted, clientConnected,
                   ErrorEnd(strm.stream_id, strm.full_response))
       ELSE LET ctx == Subscribed(strm.ctx, "OUTPUT", eff)
            IN  /\ strm' = [strm EXCEPT !.pc = "done", !.ctx = ctx, !.how = eff,
                       !.result = [status |-> "success",
                                   response |-> strm.full_response,
                                   message_ids |-> MessageIds(ctx),
                                   error |-> NoValue]]
                /\ emitted' = EmitToFrontend(emitted, clientConnected,
                       [NoEvent EXCEPT !.type = CHAT_STREAM_END,
                           !.stream_id = strm.stream_id, !.status = "success",
                           !.response = strm.full_response,
                           !.message_ids = MessageIds(ctx)])
    /\ UNCHANGED <<clientConnected, streams, closed, rpcVars, busVars, regVars,
                   loadVars, execVars, pipeVars, hostVars, chatVars,
                   callVars, outVars, queueVars, msgVars, memVars>>

\* stream_run raises: the except branch emits END and returns the error.
SourceRaises ==
    /\ strm.pc = "tokens"
    /\ strm' = [strm EXCEPT !.pc = "done", !.how = "source raised",
                   !.result = [NoResult EXCEPT !.status = "error",
                                  !.error = <<"exception">>]]
    /\ emitted' = EmitToFrontend(emitted, clientConnected,
           ErrorEnd(strm.stream_id, strm.full_response))
    /\ UNCHANGED <<clientConnected, streams, closed, rpcVars, busVars, regVars,
                   loadVars, execVars, pipeVars, hostVars, chatVars,
                   callVars, outVars, queueVars, msgVars, memVars>>

\* The frontend connects (handle_connection sets self.connection).
ClientConnects ==
    /\ ~clientConnected
    /\ clientConnected' = TRUE
    /\ UNCHANGED <<strm, emitted, streams, closed, rpcVars, busVars, regVars,
                   loadVars, execVars, pipeVars, hostVars, chatVars,
                   callVars, outVars, queueVars, msgVars, memVars>>

\* The connection ends (handle_connection resets self.connection to None).
ClientDisconnects ==
    /\ clientConnected
    /\ clientConnected' = FALSE
    /\ UNCHANGED <<strm, emitted, streams, closed, rpcVars, busVars, regVars,
                   loadVars, execVars, pipeVars, hostVars, chatVars,
                   callVars, outVars, queueVars, msgVars, memVars>>

InitStreamVars ==
    /\ strm = IdleStream
    /\ emitted = <<>>
    /\ clientConnected = FALSE
    /\ streams = 0
    /\ closed = {}

NextStream ==
    \/ \E m \in ChatMessages \ {0} : StreamBegin(m)
    \/ \E t \in Tokens : TokenArrives(t)
    \/ SourceCompletes
    \/ \E eff \in {"none", "raise", "set_ids"} : OutputPublished(eff)
    \/ SourceRaises
    \/ ClientConnects
    \/ ClientDisconnects

(***************************************************************************)
(* vault_brain.py: the life cycle of the plugin host (initialize,          *)
(* restart_vault, shutdown) with the configuration of each plugin.         *)
(*                                                                         *)
(* A plugin directory (hdisk) holds                                        *)
(*   defaults : settings.json, as a config                                 *)
(*   override : the entry of the plugin in "plugins" of .vault.json: of    *)
(*              kind "absent", "malformed" (not an object) or "dict"       *)
(*   does     : what the plugin's code does: "ok", "init_fail" (the module *)
(*              or the constructor raises), "reg_fail" (register_commands  *)
(*              raises after registering), "load_fail" (on_load raises),   *)
(*              "unload_fail" (on_unload raises)                           *)
(* A config gives each key its value or "absent".  An enabled plugin       *)
(* registers one command, named after it, in register_commands and         *)
(* subscribes one handler in register_hooks.                               *)
(***************************************************************************)
MaxRestarts == 2    \* restart_vault calls in one run

EmptyConfig == [enabled |-> "absent", param |-> "absent"]

DefaultConfigs == [enabled : {"absent", "true", "false"}, param : {"d"}]

NoOverride == [kind |-> "absent", enabled |-> "absent", param |-> "absent"]

Malformed == [kind |-> "malformed", enabled |-> "absent", param |-> "absent"]

Overrides ==
    {NoOverride, Malformed} \cup
    [kind : {"dict"}, enabled : {"absent", "true", "false"},
     param : {"absent", "w"}]

Behaviours == {"ok", "init_fail", "reg_fail", "load_fail", "unload_fail"}

HostDirs == [defaults : DefaultConfigs, override : Overrides, does : Behaviours]

\* overrides = vault_apps_config.get(plugin_name, {}); what is not a dict
\* becomes {}.
OverrideDict(override) ==
    IF override.kind = "dict"
    THEN [enabled |-> override.enabled, param |-> override.param]
    ELSE EmptyConfig

\* final_config = defaults.copy(); final_config.update(overrides).
MergedConfigDefaultsWin(defaults, override) ==
    [enabled |-> IF defaults.enabled # "absent" THEN defaults.enabled
                 ELSE OverrideDict(override).enabled,
     param   |-> IF defaults.param # "absent" THEN defaults.param
                 ELSE OverrideDict(override).param]

MergedConfig(defaults, override) ==
    [enabled |-> IF OverrideDict(override).enabled # "absent"
                 THEN OverrideDict(override).enabled ELSE defaults.enabled,
     param   |-> IF OverrideDict(override).param # "absent"
                 THEN OverrideDict(override).param ELSE defaults.param]

\* is_enabled = final_config.get("enabled", False).
IsEnabled(cfg) == cfg.enabled = "true"

HostCall(call, plugin, inc, cfg, raised, invoked) ==
    [call |-> call, plugin |-> plugin, inc |-> inc, cfg |-> cfg,
     raised |-> raised, invoked |-> invoked]

\* The command an enabled plugin registers.
PluginCommand(p) == p

\* The kernel state _load_plugins works on.
Kernel(pl, cmds, subs, log) ==
    [plugins |-> pl, commands |-> cmds, subs |-> subs, log |-> log]

\* One round of the loop of _load_plugins, for directory p of incarnation
\* inc: the config is merged; a disabled plugin is skipped; the plugin is
\* instantiated with the merged config, register_commands and
\* register_hooks are called and the plugin is stored; an exception
\* anywhere ends the round with what was done so far.
LoadOne(k, p, d, inc) ==
    LET cfg == MergedConfig(d.defaults, d.override)
        made == Append(k.log, HostCall("init", p, inc, cfg,
                                       d.does = "init_fail", {}))
        cmds == RegisterCommand(k.commands, PluginCommand(p),
                                HandlerOf(p, 1, FALSE), p, FALSE, TRUE)
        regd == Append(made, HostCall("register_commands", p, inc, cfg,
                                      d.does = "reg_fail", {}))
        hookd == Append(regd, HostCall("register_hooks", p, inc, cfg,
                                       FALSE, {}))
    IN  IF ~IsEnabled(cfg) THEN k
        ELSE IF d.does = "init_fail" THEN [k EXCEPT !.log = made]
        ELSE IF d.does = "reg_fail"
             THEN [k EXCEPT !.commands = cmds, !.log = regd]
        ELSE Kernel(Append(k.plugins, p), cmds,
                    k.subs \cup {[plugin |-> p, inc |-> inc]}, hookd)

\* _load_plugins: the directories in the order of their names.
RECURSIVE LoadAll(_, _, _, _)
LoadAll(k, order, dirs, inc) ==
    IF order = <<>> THEN k
    ELSE LoadAll(LoadOne(k, Head(order), dirs[Head(order)], inc),
                 Tail(order), dirs, inc)

\* restart_vault clears the plugins and the registry and makes a new bus.
KeptBus(subs) == subs

FreshBus(subs) == {}

\* Both initialize and restart_vault register the decorated handlers.
RegistersCoreOnlyOnce(op) == op = "initialize"

RegistersCore(op) == TRUE

\* The plugins _activate_plugins walks through: self.plugins.items().
ActivationOrderReversed(pl) == [i \in 1..Len(pl) |-> pl[Len(pl) + 1 - i]]

ActivationOrder(pl) == pl

\* The plugins on_unload is called on: list(self.plugins.items())[::-1].
UnloadOrder(pl) == [i \in 1..Len(pl) |-> pl[Len(pl) + 1 - i]]

PluginSet(pl) == {pl[i] : i \in 1..Len(pl)}

CommandIdSet(cmds) == {r.id : r \in cmds}

NoSnapshot == [plugins |-> {}, commands |-> {}]

Snapshot(pl, cmds) == [plugins |-> PluginSet(pl), commands |-> CommandIdSet(cmds)]

IdleHost ==
    [pc |-> "new", op |-> "initialize", idx |-> 0, inc |-> 1, restarts |-> 0,
     todo |-> <<>>, runtime |-> FALSE,
     base |-> NoSnapshot, before |-> NoSnapshot]

Publication(event, subs, inc) ==
    HostCall("publish", event, inc, EmptyConfig, FALSE, subs)

\* initialize: SYSTEM_STARTUP is published.
HostStartup ==
    /\ host.pc = "new"
    /\ host' = [host EXCEPT !.pc = "phase1"]
    /\ hlog' = <<Publication("SYSTEM_STARTUP", hsubs, host.inc)>>
    /\ UNCHANGED <<hsubs, hdisk, onLoads, rpcVars, busVars, regVars, loadVars,
                   execVars, pipeVars, streamVars, chatVars, callVars,
                   outVars, queueVars, msgVars, memVars>>

\* restart_vault: SYSTEM_SHUTDOWN is published on the bus of the moment.
RestartBegin ==
    /\ host.pc = "ready"
    /\ host.restarts < MaxRestarts
    /\ host' = [host EXCEPT !.pc = "unload", !.op = "restart",
                   !.restarts = @ + 1, !.todo = UnloadOrder(plugins),
                   !.before = Snapshot(plugins, commands)]
    /\ hlog' = <<Publication("SYSTEM_SHUTDOWN", hsubs, host.inc)>>
    /\ UNCHANGED <<hsubs, hdisk, onLoads, rpcVars, busVars, regVars, loadVars,
                   execVars, pipeVars, streamVars, chatVars, callVars,
                   outVars, queueVars, msgVars, memVars>>

\* shutdown: SYSTEM_SHUTDOWN is published.
ShutdownBegin ==
    /\ host.pc = "ready"
    /\ host' = [host EXCEPT !.pc = "unload", !.op = "shutdown",
                   !.todo = UnloadOrder(plugins),
                   !.before = Snapshot(plugins, commands)]
    /\ hlog' = <<Publication("SYSTEM_SHUTDOWN", hsubs, host.inc)>>
    /\ UNCHANGED <<hsubs, hdisk, onLoads, rpcVars, busVars, regVars, loadVars,
                   execVars, pipeVars, streamVars, chatVars, callVars,
                   outVars, queueVars, msgVars, memVars>>

\* on_unload of the next plugin; what it raises is logged.
HostUnload ==
    /\ host.pc = "unload"
    /\ host.todo # <<>>
    /\ LET p == Head(host.todo)
       IN  hlog' = Append(hlog, HostCall("on_unload", p, host.inc, EmptyConfig,
                                         hdisk[p].does = "unload_fail", {}))
    /\ host' = [host EXCEPT !.todo = Tail(@)]
    /\ UNCHANGED <<hsubs, hdisk, onLoads, rpcVars, busVars, regVars, loadVars,
                   execVars, pipeVars, streamVars, chatVars, callVars,
                   outVars, queueVars, msgVars, memVars>>

\* shutdown ends after the last on_unload.
ShutdownDone ==
    /\ host.pc = "unload"
    /\ host.op = "shutdown"
    /\ host.todo = <<>>
    /\ host' = [host EXCEPT !.pc = "stopped"]
    /\ UNCHANGED <<hlog, hsubs, hdisk, onLoads, rpcVars, busVars, regVars,
                   loadVars, execVars, pipeVars, streamVars, chatVars,
                   callVars, outVars, queueVars, msgVars, memVars>>

\* Up to the first on_load: initialize loads the config and runs
\* _load_plugins; restart_vault first clears the plugins and the registry
\* and replaces the bus.
HostPhase1 ==
    /\ \/ host.pc = "phase1"
       \/ host.pc = "unload" /\ host.op = "restart" /\ host.todo = <<>>
    /\ LET restart == host.op = "restart"
           inc  == IF restart THEN host.inc + 1 ELSE host.inc
           log0 == IF restart
                   THEN hlog \o <<HostCall("clear", "<brain>", inc, EmptyConfig,
                                           FALSE, {}),
                                  HostCall("load_config", "<brain>", inc,
                                           EmptyConfig, FALSE, {})>>
                   ELSE Append(hlog, HostCall("load_config", "<brain>", inc,
                                              EmptyConfig, FALSE, {}))
           k0 == IF restart THEN Kernel(<<>>, {}, FreshBus(hsubs), log0)
                 ELSE Kernel(plugins, commands, hsubs, log0)
           k  == LoadAll(k0, PluginOrder, hdisk, inc)
       IN  /\ plugins' = k.plugins
           /\ commands' = k.commands
           /\ hsubs' = k.subs
           /\ hlog' = k.log
           /\ host' = [host EXCEPT !.pc = "phase2", !.inc = inc,
                          !.runtime = FALSE,
                          !.todo = ActivationOrder(k.plugins)]
    /\ UNCHANGED <<hdisk, onLoads, lastReg, disk, loadPc, loadIdx, rpcVars,
                   busVars, execVars, pipeVars, streamVars, chatVars,
                   callVars, outVars, queueVars, msgVars, memVars>>

\* _activate_plugins: on_load of the next stored plugin and, when it
\* returned, the publication of PLUGIN_LOADED; when it raised, the
\* exception is logged and self.plugins keeps the plugin.  The
\* subscription of on_tick between the two is left out: its event,
\* CoreEvents.TICK, is not among the constants of constants.py.
HostActivate ==
    /\ host.pc = "phase2"
    /\ host.todo # <<>>
    /\ LET p == Head(host.todo)
           failed == hdisk[p].does = "load_fail"
           called == Append(hlog, HostCall("on_load", p, host.inc, EmptyConfig,
                                           failed, {}))
       IN  /\ hlog' = IF failed THEN called
                      ELSE Append(called,
                              Publication("PLUGIN_LOADED", hsubs, host.inc))
           /\ onLoads' = [onLoads EXCEPT ![p] = @ + 1]
    /\ host' = [host EXCEPT !.todo = Tail(@)]
    /\ UNCHANGED <<hsubs, hdisk, plugins, commands, lastReg, disk, loadPc, loadIdx,
                   rpcVars, busVars, execVars, pipeVars, streamVars,
                   chatVars, callVars, outVars, queueVars, msgVars, memVars>>

\* _register_decorated_handlers and the publication of ALL_PLUGINS_LOADED:
\* the kernel is ready.
HostFinish ==
    /\ host.pc = "phase2"
    /\ host.todo = <<>>
    /\ commands' = IF RegistersCore(host.op) THEN RegisterAll(commands, CoreIds)
                   ELSE commands
    /\ hlog' = hlog \o
          <<HostCall("register_core", "<brain>", host.inc, EmptyConfig, FALSE, {}),
            Publication("ALL_PLUGINS_LOADED", hsubs, host.inc)>>
    /\ host' = [host EXCEPT !.pc = "ready",
                   !.base = IF host.op = "initialize"
                            THEN Snapshot(plugins, commands') ELSE @]
    /\ UNCHANGED <<hsubs, hdisk, onLoads, plugins, lastReg, disk, loadPc,
                   loadIdx, rpcVars, busVars, execVars, pipeVars, streamVars,
                   chatVars, callVars, outVars, queueVars, msgVars, memVars>>

\* While the kernel is ready a loaded plugin registers one more command.
HostRuntimeRegister(p) ==
    /\ host.pc = "ready"
    /\ ~host.runtime
    /\ p \in PluginSet(plugins)
    /\ commands' = RegisterCommand(commands, "X", HandlerOf(p, 0, FALSE), p,
                                   FALSE, TRUE)
    /\ host' = [host EXCEPT !.runtime = TRUE]
    /\ UNCHANGED <<hlog, hsubs, hdisk, onLoads, plugins, lastReg, disk, loadPc,
                   loadIdx, rpcVars, busVars, execVars, pipeVars, streamVars,
                   chatVars, callVars, outVars, queueVars, msgVars, memVars>>

InitHostVars ==
    /\ host = IdleHost
    /\ hlog = <<>>
    /\ hsubs = {}
    /\ hdisk = [p \in PluginIds |->
                  [defaults |-> [enabled |-> "absent", param |-> "d"],
                   override |-> NoOverride, does |-> "ok"]]
    /\ onLoads = [p \in PluginIds |-> 0]

NextHost ==
    \/ HostStartup
    \/ HostPhase1
    \/ HostActivate
    \/ HostFinish
    \/ RestartBegin
    \/ ShutdownBegin
    \/ HostUnload
    \/ ShutdownDone
    \/ \E p \in PluginIds : HostRuntimeRegister(p)

(***************************************************************************)
(* vault_brain.py: chat_send, from the choice of the model to the call of  *)
(* the LLM collaborator (llm_service.complete), through                    *)
(* DefaultPipeline.run / llm_node or _stream_chat_response / stream_run.   *)
(***************************************************************************)
NoModel == "<none>"

\* The model and category arguments of a chat.send call; category has the
\* default "fast".
CallModels == {NoModel, "m_call"}

CallCategories == {"fast", "c_call"}

\* The category of the pipeline's configuration.
ConfigCategories == {"fast", "c_config"}

\* The value stored under model_override: a dict with model_id and
\* category, either of which may be missing.
ModelOverrides == [model_id : {NoModel, "m_ovr"}, category : {NoModel, "c_ovr"}]

NoOverrideValue == [model_id |-> NoModel, category |-> NoModel]

\* What execute_command("chat.get_metadata", ...) gives: it raises, or it
\* returns a status and a value.
MetadataResults ==
    {[raised |-> TRUE, status |-> "error", value |-> NoOverrideValue]}
    \cup [raised : {FALSE}, status : {"success", "error"}, value : ModelOverrides]

\* model_override after the try block around chat.get_metadata.
OverrideOf(res) ==
    IF ~res.raised /\ res.status = "success" THEN res.value
    ELSE NoOverrideValue

\* if not kwargs.get("model"): the override's model_id, if it has one,
\* becomes the model; otherwise its category, if it has one, becomes the
\* category.
ChosenModel(model, override) ==
    IF model = NoModel /\ override.model_id # NoModel THEN override.model_id
    ELSE model

ChosenCategory(model, category, override) ==
    IF model = NoModel /\ override.model_id = NoModel
       /\ override.category # NoModel
    THEN override.category
    ELSE category

\* The arguments of llm_service.complete.  Streaming: the metadata built by
\* _stream_chat_response carries the category and the model to stream_run.
\* Not streaming: chat_send gives run a metadata with the chat_id alone,
\* run sets metadata["category"] to the configured category and llm_node
\* passes no model.
LlmCall(stream, model, category, configCategory) ==
    IF stream THEN [category |-> category, model |-> model]
    ELSE [category |-> configCategory, model |-> NoModel]

NoLlmCall == [category |-> NoModel, model |-> NoModel]

IdleChat ==
    [pc |-> "idle", model |-> NoModel, category |-> "fast", stream |-> FALSE,
     config |-> "fast", override |-> NoOverrideValue, found |-> FALSE,
     given |-> NoModel, llm |-> NoLlmCall]

\* chat.send is called with a message.
ChatSendCall(model, category, stream, configCategory) ==
    /\ chat.pc = "idle"
    /\ chat' = [IdleChat EXCEPT !.pc = "metadata", !.model = model,
                   !.given = model, !.category = category, !.stream = stream,
                   !.config = configCategory]
    /\ UNCHANGED <<rpcVars, busVars, regVars, loadVars, execVars, pipeVars,
                   streamVars, hostVars, callVars, outVars, queueVars,
                   msgVars, memVars>>

\* chat.get_metadata has answered; the model and the category are chosen.
ChatGetMetadata(res) ==
    /\ chat.pc = "metadata"
    /\ chat' = [chat EXCEPT !.pc = "run",
                   !.override = OverrideOf(res),
                   !.found = OverrideOf(res) # NoOverrideValue,
                   !.model = ChosenModel(chat.model, OverrideOf(res)),
                   !.category = ChosenCategory(chat.model, chat.category,
                                               OverrideOf(res))]
    /\ UNCHANGED <<rpcVars, busVars, regVars, loadVars, execVars, pipeVars,
                   streamVars, hostVars, callVars, outVars, queueVars,
                   msgVars, memVars>>

\* The pipeline runs and calls the LLM collaborator.
ChatCallsLlm ==
    /\ chat.pc = "run"
    /\ chat' = [chat EXCEPT !.pc = "called",
                   !.llm = LlmCall(chat.stream, chat.model, chat.category,
                                   chat.config)]
    /\ UNCHANGED <<rpcVars, busVars, regVars, loadVars, execVars, pipeVars,
                   streamVars, hostVars, callVars, outVars, queueVars,
                   msgVars, memVars>>

\* chat.send returns.
ChatSendReturn ==
    /\ chat.pc = "called"
    /\ chat' = IdleChat
    /\ UNCHANGED <<rpcVars, busVars, regVars, loadVars, execVars, pipeVars,
                   streamVars, hostVars, callVars, outVars, queueVars,
                   msgVars, memVars>>

InitChatVars == chat = IdleChat

NextChat ==
    \/ \E model \in CallModels, category \in CallCategories,
          stream \in BOOLEAN, configCategory \in ConfigCategories :
          ChatSendCall(model, category, stream, configCategory)
    \/ \E res \in MetadataResults : ChatGetMetadata(res)
    \/ ChatCallsLlm
    \/ ChatSendReturn

(***************************************************************************)
(* vault_brain.py: how the built-in command handlers obtain their          *)
(* parameters.  A call gives a handler keyword arguments; a handler        *)
(* declared with **kwargs may look for a dict under "p" or "params".       *)
(* The outcome of a call is the values the body of the handler works       *)
(* with, or the TypeError Python raises for an undeclared keyword.         *)
(***************************************************************************)
Builtins ==
    {"system.chat", "system.info", "chat.send", "plugins.install",
     "plugins.toggle"}

Missing == "<missing>"

\* The parameters a caller may give to a command.
Params(cmd) ==
    CASE cmd = "system.chat" -> {"message", "history", "chat_id"}
      [] cmd = "system.info" -> {}
      [] cmd = "chat.send" ->
            {"message", "category", "stream", "chat_id", "model"}
      [] cmd = "plugins.install" -> {"download_url", "repo_url", "plugin_id"}
      [] cmd = "plugins.toggle" -> {"plugin_id", "enabled"}

\* The value a parameter has when the caller gives none: the default of
\* the signature or, for chat.send's model, of kwargs.get("model").
Default(cmd, k) ==
    CASE k = "chat_id" /\ cmd = "system.chat" -> "default"
      [] k = "category" -> "fast"
      [] k = "enabled" -> "True"
      [] k \in {"history", "model"} \/ (k = "chat_id" /\ cmd = "chat.send")
            -> "None"
      [] k = "stream" -> "False"
      [] OTHER -> ""

\* get_info(self) and list_commands(self) declare no **kwargs.
AcceptsKwargs(cmd) == cmd # "system.info"

\* The parameters a handler reads from the nested dict.
Unwrapped(cmd) ==
    CASE cmd = "system.chat" -> {"chat_id"}
      [] cmd = "system.info" -> {}
      [] cmd = "chat.send" -> {"message", "category", "stream", "chat_id"}
      [] cmd = "plugins.install" -> {"download_url", "repo_url", "plugin_id"}
      [] cmd = "plugins.toggle" -> {"plugin_id", "enabled"}

\* The parameter whose default value makes the handler look into the
\* nested dict: if not message, if not plugin_id, if chat_id == "default".
TriggerParam(cmd) ==
    CASE cmd = "system.chat" -> "chat_id"
      [] cmd = "chat.send" -> "message"
      [] OTHER -> "plugin_id"

Given(args, k) == IF k \in DOMAIN args THEN args[k] ELSE Missing

\* The values the body of the handler works with when it is called with
\* the keyword arguments named and, when hasNested, with the dict nested
\* under p or params.
Bind(cmd, named, hasNested, nested) ==
    LET bound == [k \in Params(cmd) |->
                    IF Given(named, k) # Missing THEN named[k]
                    ELSE Default(cmd, k)]
        looks == /\ hasNested
                 /\ Params(cmd) # {}
                 /\ bound[TriggerParam(cmd)] = Default(cmd, TriggerParam(cmd))
    IN  IF hasNested /\ ~AcceptsKwargs(cmd)
        THEN [error |-> "TypeError", args |-> <<>>]
        ELSE [error |-> "none",
              args |-> [k \in Params(cmd) |->
                          IF looks /\ k \in Unwrapped(cmd)
                             /\ Given(nested, k) # Missing
                          THEN nested[k] ELSE bound[k]]]

\* The parameter sets of the model: each parameter is given or not.
ParamSets(cmd) == [Params(cmd) -> {Missing, "v"}]

Styles == {"named", "p", "params"}

IdleCall ==
    [pc |-> "idle", cmd |-> "system.info", P |-> <<>>, style |-> "named",
     outcome |-> [error |-> "none", args |-> <<>>]]

\* A built-in command is called with the parameter set P, as keyword
\* arguments or nested under p or params.
BuiltinCall(cmd, P, style) ==
    /\ builtin.pc = "idle"
    /\ builtin' = [pc |-> "called", cmd |-> cmd, P |-> P, style |-> style,
                outcome |-> IF style = "named" THEN Bind(cmd, P, FALSE, <<>>)
                            ELSE Bind(cmd, <<>>, TRUE, P)]
    /\ UNCHANGED <<rpcVars, busVars, regVars, loadVars, execVars, pipeVars,
                   streamVars, hostVars, chatVars, outVars, queueVars,
                   msgVars, memVars>>

\* The handler returns.
BuiltinReturn ==
    /\ builtin.pc = "called"
    /\ builtin' = IdleCall
    /\ UNCHANGED <<rpcVars, busVars, regVars, loadVars, execVars, pipeVars,
                   streamVars, hostVars, chatVars, outVars, queueVars,
                   msgVars, memVars>>

InitCallVars == builtin = IdleCall

NextCall ==
    \/ \E cmd \in Builtins : \E P \in ParamSets(cmd) : \E style \in Styles :
          BuiltinCall(cmd, P, style)
    \/ BuiltinReturn

(***************************************************************************)
(* websocket_server.py, vault_brain.py: several websockets and the         *)
(* outbound events.  handle_connection runs once per accepted websocket,   *)
(* the read loops of two websockets running side by side.                  *)
(* emit_to_frontend hands each event to send_to_rust, which makes a task   *)
(* of send(data); the event loop runs the tasks it holds ready in the      *)
(* order in which they were made, and a send task writes its frame in its  *)
(* first step.                                                             *)
(***************************************************************************)
MaxEmits == 3       \* events emitted in one run

\* handle_connection is entered for a new websocket, whether or not the
\* read loop of an earlier one still runs: self.connection = websocket.
ConnAccept(c) ==
    /\ c = connCount + 1
    /\ c \in Conns
    /\ connCount' = c
    /\ connection' = c
    /\ loopPc' = [loopPc EXCEPT ![c] = "idle"]
    /\ transport' = [transport EXCEPT ![c] = "up"]
    /\ UNCHANGED <<brainAttached, wire, cur, handled, rpcLast, rpcPrev>>
    /\ UNCHANGED <<busVars, regVars, loadVars, extVars>>

\* The JSON-RPC notification of the n-th event emitted.
OutEvent(n) ==
    [json |-> "object", jsonrpc |-> JSONRPC_VERSION, method |-> "trigger_event",
     id |-> n, ser |-> TRUE]

\* emit_to_frontend: nothing when no client is connected; otherwise
\* send_to_rust makes a task of send(msg).
EmitEvent ==
    /\ emits < MaxEmits
    /\ emits' = emits + 1
    /\ sendTasks' = IF connection = 0 THEN sendTasks
                    ELSE Append(sendTasks, OutEvent(emits + 1))
    /\ UNCHANGED <<rpcVars, busVars, regVars, loadVars, execVars, pipeVars,
                   streamVars, hostVars, chatVars, callVars, queueVars,
                   msgVars, memVars>>

\* The ready task the event loop runs next.
NextTaskNewest(tasks) == Len(tasks)

NextTask(tasks) == 1

\* The event loop runs a send task: send(data) on the connection of the
\* moment.
RunSendTask ==
    /\ sendTasks # <<>>
    /\ LET i == NextTask(sendTasks)
           net == SendOne(Net, connection, sendTasks[i])
       IN  /\ wire' = net.wire
           /\ transport' = net.transport
           /\ sendTasks' = [j \in 1..(Len(sendTasks) - 1) |->
                              IF j < i THEN sendTasks[j] ELSE sendTasks[j + 1]]
    /\ UNCHANGED <<connection, connCount, brainAttached, loopPc, cur, handled,
                   rpcLast, rpcPrev, emits>>
    /\ UNCHANGED <<busVars, regVars, loadVars, execVars, pipeVars,
                   streamVars, hostVars, chatVars, callVars, queueVars,
                   msgVars, memVars>>

InitOutVars ==
    /\ sendTasks = <<>>
    /\ emits = 0

NextConn ==
    \/ \E c \in Conns : ConnAccept(c)
    \/ \E c \in Conns : PeerClose(c)
    \/ \E c \in Conns : LoopEnd(c)
    \/ EmitEvent
    \/ RunSendTask

(***************************************************************************)
(* websocket_server.py: send_to_rust before and after the event loop       *)
(* runs.  Before asyncio.run the only callers are synchronous (the         *)
(* constructors of main()); send_to_rust then appends to pending_messages. *)
(* start() runs once, as the event loop begins, and serves connections     *)
(* from then on.                                                           *)
(***************************************************************************)
\* send_to_rust(data), called directly (EventEmitter.emit): a task of
\* send(data) when the event loop runs, an entry of pending_messages
\* otherwise.
SendToRust ==
    /\ emits < MaxEmits
    /\ emits' = emits + 1
    /\ sendTasks' = IF loopOn THEN Append(sendTasks, OutEvent(emits + 1))
                    ELSE sendTasks
    /\ pending' = IF loopOn THEN pending
                  ELSE Append(pending, OutEvent(emits + 1))
    /\ UNCHANGED <<loopOn, rpcVars, busVars, regVars, loadVars, execVars,
                   pipeVars, streamVars, hostVars, chatVars, callVars,
                   msgVars, memVars>>

\* start(): the server listens; the pending messages are sent and
\* cleared if there are any and a connection is set.
ServerStart ==
    /\ ~loopOn
    /\ loopOn' = TRUE
    /\ LET flush == pending # <<>> /\ connection # 0
           net == IF flush THEN SendAll(Net, connection, pending) ELSE Net
       IN  /\ wire' = net.wire
           /\ transport' = net.transport
           /\ pending' = IF flush THEN <<>> ELSE pending
    /\ UNCHANGED <<connection, connCount, brainAttached, loopPc, cur, handled,
                   rpcLast, rpcPrev, outVars>>
    /\ UNCHANGED <<busVars, regVars, loadVars, execVars, pipeVars,
                   streamVars, hostVars, chatVars, callVars, msgVars,
                   memVars>>

\* The server, once started, accepts a websocket.
ServedAccept(c) ==
    /\ loopOn
    /\ ConnAccept(c)

\* The event loop, once started, runs tasks and callers of
\* emit_to_frontend.
LoopRuns(step) ==
    /\ loopOn
    /\ step

InitQueueVars ==
    /\ pending = <<>>
    /\ loopOn = FALSE

NextQueue ==
    \/ SendToRust
    \/ ServerStart
    \/ \E c \in Conns : ServedAccept(c)
    \/ \E c \in Conns : PeerClose(c)
    \/ \E c \in Conns : LoopEnd(c)
    \/ LoopRuns(EmitEvent)
    \/ LoopRuns(RunSendTask)

(***************************************************************************)
(* pipeline/nodes.py and pipeline/default.py: the message sequence handed  *)
(* to the LLM collaborator by one turn, through the graph (prompt_node,    *)
(* llm_node) and through stream_run.  A dict is a record whose absent keys *)
(* hold "<absent>"; a string built by concatenation is kept as its parts.  *)
(***************************************************************************)
MaxHistory == 2     \* entries of the history of one turn
MaxRag == 6         \* entries of metadata["rag_context"]

DefaultSystemPrompt == "You are a helpful assistant."

\* A history entry as a caller or a history provider hands it over: role and
\* content may be missing, and further keys (id, time_marker) may be there.
HistoryEntries ==
    [role : {"<absent>", "assistant"}, content : {"<absent>", "text"},
     extra : {"<absent>", "id"}]

RECURSIVE SeqsUpTo(_, _)
SeqsUpTo(S, n) ==
    IF n = 0 THEN {<<>>}
    ELSE LET shorter == SeqsUpTo(S, n - 1)
         IN shorter \cup {Append(h, e) : h \in shorter, e \in S}

Histories == SeqsUpTo(HistoryEntries, MaxHistory)

Metadatas ==
    [system_prompt : {"<absent>", "custom prompt"},
     rag_context : {[i \in 1..n |-> i] : n \in 0..MaxRag}]

\* rag[:5]
FirstFive(rag) == SubSeq(rag, 1, IF Len(rag) < 5 THEN Len(rag) ELSE 5)

\* metadata.get("system_prompt", "You are a helpful assistant.") followed, when
\* rag is not empty, by "\n\nContext:\n" and the joined first five entries.
SystemPromptWith(metadata) ==
    [prompt |-> IF metadata.system_prompt = "<absent>"
                THEN DefaultSystemPrompt ELSE metadata.system_prompt,
     context |-> IF metadata.rag_context # <<>>
                 THEN FirstFive(metadata.rag_context) ELSE <<>>]

\* prompt_node: metadata["final_system_prompt"].
final_system_prompt(metadata) == SystemPromptWith(metadata)

MessageDict(role, content) ==
    [role |-> role, content |-> content, extra |-> "<absent>"]

\* llm_node: {"role": msg.get("role", "user"),
\*            "content": msg.get("content", "")} for each history entry.
RoleAndContent(msg) ==
    MessageDict(IF msg.role = "<absent>" THEN "user" ELSE msg.role,
                IF msg.content = "<absent>" THEN "" ELSE msg.content)

\* llm_node: the messages of llm_client.complete.
LlmNodeMessages(message, history, metadata) ==
    <<MessageDict("system", final_system_prompt(metadata))>>
       \o [i \in 1..Len(history) |-> RoleAndContent(history[i])]
       \o <<MessageDict("user", message)>>

\* stream_run: the messages of llm_service.complete; every history entry is
\* appended as it is.
StreamRunMessages(message, history, metadata) ==
    <<MessageDict("system", SystemPromptWith(metadata))>>
       \o history
       \o <<MessageDict("user", message)>>

\* run() reaches the collaborator call of llm_node (no subscriber, no abort).
RunBuildsMessages ==
    /\ built.run = <<>>
    /\ built' = [built EXCEPT
                   !.run = LlmNodeMessages(built.message, built.history,
                                           built.metadata)]
    /\ UNCHANGED <<rpcVars, busVars, regVars, loadVars, execVars, pipeVars,
                   streamVars, hostVars, chatVars, callVars, outVars,
                   queueVars, memVars>>

\* stream_run() reaches its collaborator call.
StreamBuildsMessages ==
    /\ built.stream = <<>>
    /\ built' = [built EXCEPT
                   !.stream = StreamRunMessages(built.message, built.history,
                                                built.metadata)]
    /\ UNCHANGED <<rpcVars, busVars, regVars, loadVars, execVars, pipeVars,
                   streamVars, hostVars, chatVars, callVars, outVars,
                   queueVars, memVars>>

InitMsgVars ==
    built = [message |-> "hi", history |-> <<>>,
             metadata |-> [system_prompt |-> "<absent>", rag_context |-> <<>>],
             run |-> <<>>, stream |-> <<>>]

NextMsgs == RunBuildsMessages \/ StreamBuildsMessages

(***************************************************************************)
(* example-vault/plugins/memory/main.py: one chat file of the memory       *)
(* plugin.  A branch id is a number (uuid4 never repeats one), 0 is None;  *)
(* a message is its id: save number n stores the messages 2n-1 and 2n.     *)
(***************************************************************************)
MaxBranches == 5    \* branch ids one chat file may use
MaxSaves == 2       \* save_interaction calls on the chat

BranchIds == 1..MaxBranches

NoBranch == [used |-> FALSE, parent |-> 0, messages |-> <<>>]

UsedBranches(data) == {b \in BranchIds : data[b].used}

\* uuid.uuid4().hex[:8]: an id no branch of the file has.
FreshBranch(data) ==
    CHOOSE b \in BranchIds \ UsedBranches(data) :
       \A c \in BranchIds \ UsedBranches(data) : b <= c

\* _create_empty_chat: one root branch "Main" without parent, active.
RootBranch == [used |-> TRUE, parent |-> 0, messages |-> <<>>]

\* The message ids stored in the file.
StoredMessages(data) ==
    UNION {{data[b].messages[i] : i \in 1..Len(data[b].messages)} :
              b \in UsedBranches(data)}

\* create_branch step 1: the branch and index of message_id.
BranchOf(data, message_id) ==
    CHOOSE b \in UsedBranches(data) :
       \E i \in 1..Len(data[b].messages) : data[b].messages[i] = message_id

IndexOf(messages, message_id) ==
    CHOOSE i \in 1..Len(messages) : messages[i] = message_id

\* create_branch, the reparent loop: every branch of the file whose
\* parent_branch is the target gets the continuation as parent.  The loop runs
\* over list(data["branches"].items()) after the continuation was stored.
Reparent(data, target, continuation) ==
    [b \in BranchIds |->
        IF data[b].used /\ data[b].parent = target
        THEN [data[b] EXCEPT !.parent = continuation] ELSE data[b]]

\* create_branch step 2: trunk stays, the tail moves to the continuation.
SplitBranch(data, target, index, continuation) ==
    LET all == data[target].messages
        stored == [data EXCEPT
                     ![continuation] =
                        [used |-> TRUE, parent |-> target,
                         messages |-> SubSeq(all, index + 1, Len(all))],
                     ![target].messages = SubSeq(all, 1, index)]
    IN Reparent(stored, target, continuation)

\* _reconstruct_history: the parent's history, then the branch's messages.  A
\* chain longer than the number of branches revisits a branch: the recursion
\* of the code then never reaches a root (RecursionError); ok is FALSE.
RECURSIVE reconstruct_history(_, _, _)
reconstruct_history(data, branch_id, depth) ==
    IF depth > MaxBranches THEN [ok |-> FALSE, messages |-> <<>>]
    ELSE IF branch_id \notin UsedBranches(data)
         THEN [ok |-> TRUE, messages |-> <<>>]
    ELSE IF data[branch_id].parent = 0
         THEN [ok |-> TRUE, messages |-> data[branch_id].messages]
    ELSE LET parent_history ==
                reconstruct_history(data, data[branch_id].parent, depth + 1)
         IN [ok |-> parent_history.ok,
             messages |-> parent_history.messages
                             \o data[branch_id].messages]

History(data, branch_id) == reconstruct_history(data, branch_id, 1)

IdleMem ==
    [op |-> "none", saves |-> 0, target |-> 0, index |-> 0, split |-> FALSE,
     continuation |-> 0, branch |-> 0, wasActive |-> 0,
     before |-> [b \in BranchIds |-> NoBranch], returned |-> TRUE]

\* save_interaction (OUTPUT subscriber, response not empty): the two messages
\* of the turn are appended to the active branch; a file without a usable
\* active branch gets a root first.
save_interaction ==
    /\ memLast.saves < MaxSaves
    /\ LET n == memLast.saves + 1
           fresh == active = 0 \/ active \notin UsedBranches(branches)
           root == IF fresh THEN FreshBranch(branches) ELSE active
           data == IF fresh THEN [branches EXCEPT ![root] = RootBranch]
                   ELSE branches
       IN /\ active' = root
          /\ branches' = [data EXCEPT
                            ![root].messages = @ \o <<2 * n - 1, 2 * n>>]
          /\ memLast' = [IdleMem EXCEPT
                           !.op = "save_interaction", !.saves = n,
                           !.branch = root, !.wasActive = active,
                           !.before = branches]
    /\ UNCHANGED <<rpcVars, busVars, regVars, loadVars, execVars, pipeVars,
                   streamVars, hostVars, chatVars, callVars, outVars,
                   queueVars, msgVars>>

\* create_branch(chat_id, message_id): message_id 0 is "not provided" (the end
\* of the active branch).  The chat file exists.
create_branch(message_id) ==
    /\ UsedBranches(branches) # {}
    /\ message_id = 0 \/ message_id \in StoredMessages(branches)
    /\ Cardinality(BranchIds \ UsedBranches(branches)) >= 2
    /\ LET target == IF message_id = 0 THEN active
                     ELSE BranchOf(branches, message_id)
           index == IF message_id = 0 THEN Len(branches[target].messages)
                    ELSE IndexOf(branches[target].messages, message_id)
           is_split == index < Len(branches[target].messages)
           continuation == FreshBranch(branches)
           data == IF is_split
                   THEN SplitBranch(branches, target, index, continuation)
                   ELSE branches
           new_branch == FreshBranch(data)
           data2 == [data EXCEPT
                       ![new_branch] = [used |-> TRUE, parent |-> target,
                                        messages |-> <<>>]]
       IN /\ branches' = data2
          /\ active' = new_branch
          /\ memLast' = [IdleMem EXCEPT
                           !.op = "create_branch", !.saves = memLast.saves,
                           !.target = target, !.index = index,
                           !.split = is_split,
                           !.continuation = IF is_split THEN continuation
                                            ELSE 0,
                           !.branch = new_branch, !.wasActive = active,
                           !.before = branches,
                           !.returned = History(data2, new_branch).ok]
    /\ UNCHANGED <<rpcVars, busVars, regVars, loadVars, execVars, pipeVars,
                   streamVars, hostVars, chatVars, callVars, outVars,
                   queueVars, msgVars>>

\* switch_branch(chat_id, branch) to a branch of the file: the file is saved
\* with the new active branch, then the history is reconstructed.
switch_branch(branch) ==
    /\ branch \in UsedBranches(branches)
    /\ active' = branch
    /\ memLast' = [IdleMem EXCEPT
                     !.op = "switch_branch", !.saves = memLast.saves,
                     !.branch = branch, !.wasActive = active,
                     !.before = branches,
                     !.returned = History(branches, branch).ok]
    /\ UNCHANGED branches
    /\ UNCHANGED <<rpcVars, busVars, regVars, loadVars, execVars, pipeVars,
                   streamVars, hostVars, chatVars, callVars, outVars,
                   queueVars, msgVars>>

InitMemVars ==
    /\ branches = [b \in BranchIds |-> NoBranch]
    /\ active = 0
    /\ memLast = IdleMem

NextMem ==
    \/ save_interaction
    \/ \E message_id \in 0..(2 * MaxSaves) : create_branch(message_id)
    \/ \E branch \in BranchIds : switch_branch(branch)

(***************************************************************************)
(* vault_brain.py, websocket_server.py: the end of a streaming chat.send.  *)
(* Every handler of this part is _stream_chat_response, called through     *)
(* chat.send by handle_message.  Its events go through emit_to_frontend    *)
(* and send_to_rust, each as a task of send(msg); its result is sent by    *)
(* handle_message itself with await self.send(response).  send hands its   *)
(* frame to the socket before its first suspension point.                  *)
(***************************************************************************)
\* The CHAT_STREAM_END notification of the stream of one request.
StreamEndEvent(n, stream_id) ==
    [json |-> "object", jsonrpc |-> JSONRPC_VERSION, method |-> "trigger_event",
     id |-> n, ser |-> TRUE, event_type |-> CHAT_STREAM_END,
     stream_id |-> stream_id]

\* CHAT_STREAM_START or a CHAT_TOKEN is emitted while the handler runs.
StreamEmits(c) ==
    /\ loopPc[c] = "handler"
    /\ EmitEvent

\* The stream is over: OUTPUT was published, emit_to_frontend hands
\* CHAT_STREAM_END to send_to_rust, the handler returns its result and
\* handle_message sends the response; no suspension point lies between.
StreamingReturn(c) ==
    /\ loopPc[c] = "handler"
    /\ emits < MaxEmits
    /\ emits' = emits + 1
    /\ sendTasks' = IF connection = 0 THEN sendTasks
                    ELSE Append(sendTasks,
                                StreamEndEvent(emits + 1,
                                               get_request_id(cur[c])))
    /\ LET m == cur[c]
           route == Route(m, brainAttached)
           sends == SendsOnReturn(route, TRUE, m)
           net2 == SendAll(Net, connection, sends)
       IN /\ wire' = net2.wire
          /\ transport' = net2.transport
          /\ rpcLast' = LogEntry(c, m, route, "return", sends, net2, FALSE)
          /\ rpcPrev' = Brief(rpcLast)
    /\ loopPc' = [loopPc EXCEPT ![c] = "idle"]
    /\ cur' = [cur EXCEPT ![c] = NoMsg]
    /\ UNCHANGED <<connection, connCount, brainAttached, handled>>
    /\ UNCHANGED <<busVars, regVars, loadVars, execVars, pipeVars,
                   streamVars, hostVars, chatVars, callVars, queueVars,
                   msgVars, memVars>>

NextTurn ==
    \/ \E c \in Conns : Accept(c)
    \/ \E c \in Conns, m \in Messages(handled + 1) : Receive(c, m)
    \/ \E c \in Conns : StreamEmits(c)
    \/ \E c \in Conns : StreamingReturn(c)
    \/ RunSendTask
    \/ \E c \in Conns : PeerClose(c)
    \/ \E c \in Conns : LoopEnd(c)

IdleCallVars ==
    /\ InitChatVars
    /\ InitCallVars
    /\ InitOutVars
    /\ InitQueueVars
    /\ InitMsgVars
    /\ InitMemVars

IdleExtVars ==
    /\ InitExecVars
    /\ InitPipeVars
    /\ InitStreamVars
    /\ InitHostVars /\ IdleCallVars

(***************************************************************************)
(* The specifications.                                                     *)
(***************************************************************************)
IdleRpcVars == InitRpcVars /\ brainAttached

InitRpc == InitRpcVars /\ InitBusVars /\ InitRegVars /\ IdleLoadVars /\ IdleExtVars
SpecRpc == InitRpc /\ [][NextRpc]_vars

InitBus == IdleRpcVars /\ InitBusVars /\ InitRegVars /\ IdleLoadVars /\ IdleExtVars
SpecBus == InitBus /\ [][NextBus]_vars

InitReg == IdleRpcVars /\ InitBusVars /\ InitRegVars /\ IdleLoadVars /\ IdleExtVars
SpecReg == InitReg /\ [][NextReg]_vars

InitLoad == IdleRpcVars /\ InitBusVars /\ InitRegVars /\ InitLoadVars /\ IdleExtVars
SpecLoad == InitLoad /\ [][NextLoad]_vars

InitPipe ==
    /\ IdleRpcVars /\ InitBusVars /\ InitRegVars /\ IdleLoadVars
    /\ InitExecVars /\ InitPipeVars /\ InitStreamVars /\ InitHostVars /\ IdleCallVars
SpecPipe == InitPipe /\ [][NextPipe]_vars

InitStream ==
    /\ IdleRpcVars /\ InitBusVars /\ InitRegVars /\ IdleLoadVars
    /\ InitExecVars /\ InitPipeVars
    /\ strm = IdleStream /\ emitted = <<>> /\ streams = 0 /\ closed = {}
    /\ clientConnected \in BOOLEAN
    /\ InitHostVars /\ IdleCallVars
SpecStream == InitStream /\ [][NextStream]_vars

InitHost ==
    /\ IdleRpcVars /\ InitBusVars /\ InitRegVars
    /\ IdleLoadVars
    /\ InitExecVars /\ InitPipeVars /\ InitStreamVars
    /\ host = IdleHost /\ hlog = <<>> /\ hsubs = {}
    /\ hdisk \in [PluginIds -> HostDirs]
    /\ onLoads = [p \in PluginIds |-> 0]
    /\ IdleCallVars
SpecHost == InitHost /\ [][NextHost]_vars

InitChat ==
    /\ IdleRpcVars /\ InitBusVars /\ InitRegVars /\ IdleLoadVars
    /\ IdleExtVars
SpecChat == InitChat /\ [][NextChat]_vars

InitCall ==
    /\ IdleRpcVars /\ InitBusVars /\ InitRegVars /\ IdleLoadVars
    /\ IdleExtVars
SpecCall == InitCall /\ [][NextCall]_vars

InitConn ==
    /\ IdleRpcVars /\ InitBusVars /\ InitRegVars /\ IdleLoadVars
    /\ IdleExtVars
SpecConn == InitConn /\ [][NextConn]_vars

InitQueue ==
    /\ IdleRpcVars /\ InitBusVars /\ InitRegVars /\ IdleLoadVars
    /\ IdleExtVars
SpecQueue == InitQueue /\ [][NextQueue]_vars

InitMsgs ==
    /\ IdleRpcVars /\ InitBusVars /\ InitRegVars /\ IdleLoadVars
    /\ InitExecVars /\ InitPipeVars /\ InitStreamVars /\ InitHostVars
    /\ InitChatVars /\ InitCallVars /\ InitOutVars /\ InitQueueVars
    /\ InitMemVars
    /\ \E h \in Histories, md \in Metadatas :
          built = [message |-> "hi", history |-> h, metadata |-> md,
                   run |-> <<>>, stream |-> <<>>]

SpecMsgs == InitMsgs /\ [][NextMsgs]_vars

InitMem ==
    /\ IdleRpcVars /\ InitBusVars /\ InitRegVars /\ IdleLoadVars
    /\ IdleExtVars

SpecMem == InitMem /\ [][NextMem]_vars

InitTurn ==
    /\ InitRpcVars /\ InitBusVars /\ InitRegVars /\ IdleLoadVars
    /\ IdleExtVars

SpecTurn == InitTurn /\ [][NextTurn]_vars

InitExec ==
    /\ IdleRpcVars /\ InitBusVars /\ IdleLoadVars /\ InitExecVars
    /\ InitPipeVars /\ InitStreamVars /\ InitHostVars /\ IdleCallVars
    /\ commands \in Registries
    /\ lastReg = NoCall
SpecExec == InitExec /\ [][NextExec]_vars

(***************************************************************************)
(* Properties of the RPC boundary (SpecRpc).  They read the history record *)
(* rpcLast of the handle_message call that completed last.                 *)
(***************************************************************************)
IsPrefix(s, t) == Len(s) <= Len(t) /\ SubSeq(t, 1, Len(s)) = s

\* A request that passes validate_jsonrpc_message.
IsValidRequest(m) ==
    /\ m.json = "object"
    /\ m.method \in MethodStrings
    /\ validate_jsonrpc_message(m) = 0

\* The messages of a sequence that carry the given id.
WithId(msgs, id) == {i \in 1..Len(msgs) : msgs[i].id = id}

\* The method is a key of neither table.
InNoTable(m) ==
    /\ m.method \notin WsMethods
    /\ ~(brainAttached /\ m.method \in BrainMethods)

\* The code a protocol error should be reported with.
ProtocolErrorCode(m) ==
    IF m.json = "invalid" THEN JSONRPC_PARSE_ERROR
    ELSE IF m.json \in {"scalar", "array"} THEN JSONRPC_INVALID_REQUEST
    ELSE validate_jsonrpc_message(m)

IsProtocolError(m) == m.json # "none" /\ ProtocolErrorCode(m) # 0

\* C1: every valid request that carries an id and names a method, handled
\* while the connection can be written, puts exactly one message with that
\* id on the connection.
C1_ExactlyOneResponse ==
    (/\ rpcLast.route # "none"
     /\ IsValidRequest(rpcLast.msg)
     /\ rpcLast.msg.method # ""
     /\ rpcLast.msg.id # NoId
     /\ rpcLast.up)
    => Cardinality(WithId(rpcLast.written, rpcLast.msg.id)) = 1

\* C2: a valid request without an id (a notification) puts no message on
\* the connection, whatever handle_message did with it.
C2_NotificationNoResponse ==
    (/\ rpcLast.route # "none"
     /\ IsValidRequest(rpcLast.msg)
     /\ rpcLast.msg.id = NoId)
    => rpcLast.written = <<>>

\* C3: a valid request with an id whose method is in neither table, handled
\* while the connection can be written, is answered by exactly the
\* method-not-found error for its id, and the connection is not closed.
C3_UnknownMethodNotFound ==
    (/\ rpcLast.route # "none"
     /\ IsValidRequest(rpcLast.msg)
     /\ rpcLast.msg.id # NoId
     /\ InNoTable(rpcLast.msg)
     /\ rpcLast.up)
    => /\ rpcLast.written = <<build_method_not_found(rpcLast.msg.id)>>
       /\ ~rpcLast.closing

\* C4: a protocol error (no JSON, or JSON that fails validation), handled
\* while the connection can be written, puts an error message with the
\* matching code on the connection, and the connection is not closed.
C4_ProtocolErrorReported ==
    (/\ rpcLast.route # "none"
     /\ IsProtocolError(rpcLast.msg)
     /\ rpcLast.up)
    => /\ \E i \in 1..Len(rpcLast.written) :
             /\ rpcLast.written[i].type = "error"
             /\ rpcLast.written[i].code = ProtocolErrorCode(rpcLast.msg)
       /\ ~rpcLast.closing

\* C5: when the awaited handler raised, handle_message passes exactly the
\* internal error (-32603) for the request's id to send and does not call
\* close; on a writable connection that error is what gets written, the
\* connection is not closed, and its read loop goes on.
C5_HandlerRaiseInternalError ==
    rpcLast.outcome = "raise"
    => /\ rpcLast.sends = <<build_internal_error(rpcLast.msg.id)>>
       /\ rpcLast.sends[1].code = JSONRPC_INTERNAL_ERROR
       /\ ~rpcLast.closeCalled
       /\ rpcLast.up
          => /\ rpcLast.written = rpcLast.sends
             /\ ~rpcLast.closing
             /\ transport[rpcLast.conn] = "up"
                => loopPc[rpcLast.conn] \in {"idle", "handler"}

\* C5 witness: a handler raised on a writable connection, and the next
\* message on the same connection was handled and answered.
C5_Witness ==
    /\ rpcPrev.outcome = "raise"
    /\ rpcPrev.up
    /\ rpcPrev.id # NoId
    /\ rpcLast.conn = rpcPrev.conn
    /\ rpcLast.msg.id # NoId
    /\ Cardinality(WithId(rpcLast.written, rpcLast.msg.id)) >= 1

(***************************************************************************)
(* Properties of the event bus (SpecBus).  pub.atBegin is the subscriber   *)
(* list of the event at the instant publish was called; pub.started lists  *)
(* the entries whose handler was invoked, in invocation order; pub.hst is  *)
(* the state of each invocation.                                           *)
(***************************************************************************)
\* Priority descending, entries of equal priority in subscription order.
SortedStable(list) ==
    \A i, j \in 1..Len(list) :
        i < j => \/ list[i].prio > list[j].prio
                 \/ /\ list[i].prio = list[j].prio
                    /\ list[i].ser < list[j].ser

Running(call) == {j \in 1..Len(call.hst) : call.hst[j] = "running"}

\* C6: every subscriber list is ordered by priority descending with ties in
\* subscription order; a sequential publish invokes the handlers of the
\* list in that order, at most one running at any time, each started only
\* after the ones before it terminated, and all of them by the time it
\* returns.
C6_PriorityOrderSequential ==
    /\ \A e \in Events : SortedStable(subscribers[e])
    /\ (pub.st # "idle" /\ pub.sequential)
       => /\ SortedStable(pub.atBegin)
          /\ IsPrefix(pub.started, pub.atBegin)
          /\ Cardinality(Running(pub)) <= 1
          /\ \A j \in Running(pub) : j = Len(pub.hst)
          /\ pub.st = "returned" => pub.started = pub.atBegin

\* C6 witness: a sequential publish returned after running two handlers,
\* the one subscribed later, with the higher priority, first.
C6_Witness ==
    /\ pub.st = "returned"
    /\ pub.sequential
    /\ Len(pub.started) = 2
    /\ pub.started[1].prio > pub.started[2].prio
    /\ pub.started[1].ser > pub.started[2].ser
    /\ pub.hst = <<"ok", "ok">>

\* C7: the handlers one publish call invokes are, in order, a prefix of the
\* subscriber list taken when publish began, and the whole of it once the
\* call returned, whatever happened to the subscriber list meanwhile.
C7_DispatchSetFixedAtBegin ==
    pub.st \in {"running", "returned"}
    => /\ IsPrefix(pub.started, pub.atBegin)
       /\ pub.st = "returned" => pub.started = pub.atBegin

\* C7 witness: publish returned after the event's subscriber list changed
\* during the dispatch; the list now differs from the one that was run.
C7_Witness ==
    /\ pub.st = "returned"
    /\ pub.mutated
    /\ pub.atBegin # <<>>
    /\ subscribers[pub.event] # pub.atBegin
    /\ pub.started = pub.atBegin

\* C8: no exception of a handler reaches the publisher; when publish has
\* returned, every entry of the dispatch list was invoked exactly once and
\* every invocation has terminated, by returning or by raising.
C8_AllInvokedNoEscape ==
    /\ pub.st # "raised"
    /\ pub.st = "returned"
       => /\ Len(pub.hst) = Len(pub.atBegin)
          /\ \A j \in 1..Len(pub.atBegin) :
                /\ pub.started[j] = pub.atBegin[j]
                /\ pub.hst[j] \in {"ok", "failed"}

\* C8 witness (sequential): the first handler raised, the second ran after
\* it and returned, and publish returned.
C8_Witness ==
    /\ pub.st = "returned"
    /\ pub.sequential
    /\ Len(pub.hst) = 2
    /\ pub.hst[1] = "failed"
    /\ pub.hst[2] = "ok"

(***************************************************************************)
(* Properties of the command registry (SpecReg) and of the plugin load     *)
(* (SpecLoad).                                                             *)
(***************************************************************************)
\* C9: the registry holds at most one record per id; after a register call
\* with an async handler on an id that was bound, the record of the id is
\* the call's (handler, owner) whatever the override flag, and every other
\* id has the record it had before.
C9_ReRegisterReplaces ==
    /\ \A r1, r2 \in commands : r1.id = r2.id => r1 = r2
    /\ (/\ lastReg.kind = "register"
        /\ lastReg.isAsync
        /\ IsBound(lastReg.before, lastReg.id))
       => /\ Lookup(commands, lastReg.id) =
                [id |-> lastReg.id, handler |-> lastReg.handler,
                 plugin |-> lastReg.owner]
          /\ \A id \in CommandIds \ {lastReg.id} :
                Lookup(commands, id) = Lookup(lastReg.before, id)

\* C9 witness: a bound id was registered again without the override flag by
\* another owner, while another id was bound too.
C9_Witness ==
    /\ lastReg.kind = "register"
    /\ lastReg.isAsync
    /\ ~lastReg.override
    /\ IsBound(lastReg.before, lastReg.id)
    /\ Lookup(lastReg.before, lastReg.id).plugin # lastReg.owner
    /\ Lookup(commands, lastReg.id).plugin = lastReg.owner
    /\ \E id \in CommandIds \ {lastReg.id} : IsBound(commands, id)

\* The register_command calls on id that a load of the directory executes,
\* as <<plugin, phase>>, and their place in the order of execution.
Executes(p, phase) ==
    IF phase = 1 THEN RunsRegisterCommands(disk[p].mode)
    ELSE IsStored(disk[p].mode)

RegOf(p, phase) == IF phase = 1 THEN disk[p].reg1 ELSE disk[p].reg2

Calls(id) ==
    {c \in PluginIds \X {1, 2} : Executes(c[1], c[2]) /\ RegOf(c[1], c[2]).id = id}

CallKey(c) == c[2] * (Len(PluginNames) + 1) + NameRank(c[1])

LastCall(id) ==
    CHOOSE c \in Calls(id) : \A d \in Calls(id) : CallKey(d) <= CallKey(c)

\* Plugin p registers id, and only with the given override flag.
RegistersOnly(p, id, override) ==
    /\ \E ph \in {1, 2} : <<p, ph>> \in Calls(id)
    /\ \A ph \in {1, 2} :
          <<p, ph>> \in Calls(id) => RegOf(p, ph).override = override

\* C10 as stated: when one plugin registers X only without override and the
\* other registers X only with override, then after load execute(X) runs
\* the handler of the one that used override.
C10_OverrideWins ==
    loadPc = "done"
    => \A a, b \in PluginIds :
          (/\ a # b
           /\ RegistersOnly(a, "X", FALSE)
           /\ RegistersOnly(b, "X", TRUE))
          => ExecutedHandler(commands, "X").by = b

\* C10 amended: after load, execute of an id that is no built-in command
\* runs the handler of the register_command call executed last (all of Phase 1
\* in discovery order, then all of Phase 2 in discovery order), whatever
\* the override flags; it is unbound when no call on it was executed.
C10_LastRegistrationWins ==
    loadPc = "done"
    => \A id \in CommandIds \ CoreIds :
          IF Calls(id) = {} THEN ~IsBound(commands, id)
          ELSE LET c == LastCall(id)
                   h == HandlerOf(c[1], c[2], RegOf(c[1], c[2]).override)
               IN /\ ExecutedHandler(commands, id) = h
                  /\ Lookup(commands, id) =
                        [id |-> id, handler |-> h, plugin |-> c[1]]

\* C10 witness: load is complete; one plugin registered X with override,
\* the other without, and execute(X) runs the handler registered without it.
C10_Witness ==
    /\ loadPc = "done"
    /\ \E a, b \in PluginIds :
          /\ a # b
          /\ RegistersOnly(a, "X", FALSE)
          /\ RegistersOnly(b, "X", TRUE)
          /\ ExecutedHandler(commands, "X").by = a
          /\ ~ExecutedHandler(commands, "X").override

IsEvent(e) == e.kind = "event"

IsDoing(e) == e.kind \in {"event", "work"}

Names(entries) == [i \in 1..Len(entries) |-> entries[i].name]

\* The stage events of the turn, in the order of their publication.
Stages == Names(SelectSeq(trace, IsEvent))

\* The stage events and the built-in work of the turn, in order.
Doings == Names(SelectSeq(trace, IsDoing))

StageOrder ==
    <<"START", "INPUT", "CONTEXT", "PROMPT", "LLM", "POST_PROCESS", "OUTPUT",
      "END">>

\* The order with the built-in work ("prompt", "llm") in it; the LLM work
\* is left out when a subscriber supplied the response.
TurnOrder ==
    <<"START", "INPUT", "CONTEXT", "prompt", "PROMPT", "LLM", "llm",
      "POST_PROCESS", "OUTPUT", "END">>

TurnOrderLlmSkipped ==
    <<"START", "INPUT", "CONTEXT", "prompt", "PROMPT", "LLM",
      "POST_PROCESS", "OUTPUT", "END">>

NodeOfName(name) ==
    CASE name \in {"START", "INPUT"}      -> "input"
      [] name = "CONTEXT"                 -> "context"
      [] name \in {"prompt", "PROMPT"}    -> "prompt"
      [] name \in {"LLM", "llm"}          -> "llm"
      [] name = "POST_PROCESS"            -> "post_process"
      [] name \in {"OUTPUT", "END"}       -> "output"

Skipped == \E i \in 1..Len(trace) : trace[i].kind = "skip"

TurnDone == pipe.node = "done" /\ pipe.result.status = "success"

GraphFailed == pipe.returned.response = <<"Error:", "graph exception">>

\* The positions of the stage events in the trace.
EventAt == {i \in 1..Len(trace) : IsEvent(trace[i])}

NextEventAfter(i) ==
    IF \E j \in EventAt : j > i
    THEN CHOOSE j \in EventAt : j > i /\ \A k \in EventAt : k > i => j <= k
    ELSE 0

InputAbortAt ==
    {i \in EventAt : trace[i].name = "INPUT" /\ trace[i].eff = "abort"}

\* The reason of the last abort call of the turn.
LastAbortReason ==
    LET at == {i \in EventAt : trace[i].eff = "abort"}
        last == CHOOSE i \in at : \A j \in at : j <= i
    IN  <<"reason", trace[last].name>>

\* C13: if an INPUT subscriber sets should_abort, the LLM event is not
\* published and the collaborator is not called in that turn, and the
\* context the turn returns has should_abort set with the abort_reason a
\* subscriber gave: the INPUT subscriber's, unless a subscriber of a later
\* publication called abort again.
C13_InputAbortStopsLlm ==
    InputAbortAt # {} =>
       /\ \A j \in EventAt : trace[j].name # "LLM"
       /\ \A j \in 1..Len(trace) : trace[j].name # "llm" \/ trace[j].kind = "skip"
       /\ pipe.llm_calls = 0
       /\ (TurnDone /\ ~GraphFailed) =>
             /\ pipe.returned.should_abort
             /\ pipe.returned.abort_reason = LastAbortReason
             /\ (\A j \in EventAt : trace[j].eff = "abort" => j \in InputAbortAt)
                   => pipe.returned.abort_reason = <<"reason", "INPUT">>

\* A finished turn that an INPUT subscriber aborted.
C13_Witness ==
    /\ TurnDone /\ ~GraphFailed
    /\ InputAbortAt # {}
    /\ pipe.returned.should_abort
    /\ pipe.returned.abort_reason = <<"reason", "INPUT">>
    /\ pipe.llm_calls = 0

\* C14: once should_abort is set during INPUT, none of the events CONTEXT,
\* PROMPT, LLM, POST_PROCESS and OUTPUT is published and no built-in work
\* runs in the rest of the turn.
C14_AbortShortCircuits ==
    \A i \in InputAbortAt :
       \A j \in (i + 1)..Len(trace) :
          IsDoing(trace[j]) =>
             trace[j].name \notin {"CONTEXT", "prompt", "PROMPT", "LLM", "llm",
                                   "POST_PROCESS", "OUTPUT"}

\* The positions at which an LLM subscriber supplied the response.
LlmSuppliedAt ==
    {i \in EventAt : trace[i].name = "LLM" /\ trace[i].eff = "set_response"}

CollaboratorResponses ==
    {LlmResponse(o) : o \in {"placeholder", "unavailable", "ok", "fail"}}

\* C15: if a subscriber of the LLM event sets a non-empty response, the
\* collaborator is not called in that turn, the POST_PROCESS subscribers
\* see that response, and the OUTPUT subscribers see it as the POST_PROCESS
\* stage left it (the same value unless a POST_PROCESS subscriber rewrote
\* it), never a response of the built-in LLM work.
C15_SubscriberResponseSkipsLlm ==
    LlmSuppliedAt # {} =>
       /\ pipe.llm_calls = 0
       /\ \A j \in 1..Len(trace) : trace[j].kind = "work" => trace[j].name # "llm"
       /\ \A j \in EventAt :
             trace[j].name = "POST_PROCESS" =>
                trace[j].ctx.response = <<"subscriber", "LLM">>
       /\ \A j, k \in EventAt :
             (trace[j].name = "POST_PROCESS" /\ trace[k].name = "OUTPUT") =>
                /\ trace[k].ctx.response =
                      Subscribed(trace[j].ctx, "POST_PROCESS",
                                 trace[j].eff).response
                /\ trace[j].eff \notin {"set_response", "set_nonstring"} =>
                      trace[k].ctx.response = <<"subscriber", "LLM">>
                /\ trace[k].ctx.response \notin CollaboratorResponses

\* A finished turn whose response an LLM subscriber supplied and the
\* POST_PROCESS and OUTPUT subscribers saw.
C15_Witness ==
    /\ TurnDone /\ ~GraphFailed
    /\ LlmSuppliedAt # {}
    /\ \E j \in EventAt :
          trace[j].name = "POST_PROCESS"
          /\ trace[j].ctx.response = <<"subscriber", "LLM">>
    /\ \E k \in EventAt :
          trace[k].name = "OUTPUT"
          /\ trace[k].ctx.response = <<"subscriber", "LLM">>
    /\ pipe.result.response = <<"subscriber", "LLM">>

\* The position of the built-in LLM work whose collaborator failed.
LlmFailedAt ==
    {i \in 1..Len(trace) :
        trace[i].kind = "work" /\ trace[i].name = "llm" /\ trace[i].eff = "fail"}

RaisedAt == {i \in EventAt : trace[i].eff = "raise"}

\* The subscribers after position i left the response alone.
ResponseKeptAfter(i) ==
    \A j \in EventAt :
       j > i => trace[j].eff \notin {"set_response", "set_nonstring"}

\* C16: run raises nothing when the collaborator fails or a subscriber
\* raises: the graph goes on (it stops only on a context it cannot build),
\* the later stages run, run returns a context of the turn, and after a
\* failure of the collaborator the response is the diagnostic string.
C16_RunAlwaysReturns ==
    /\ (pipe.node = "__raised__" \/ (TurnDone /\ GraphFailed)) =>
          \E i \in EventAt : trace[i].eff = "set_nonstring"
    /\ TurnDone =>
          pipe.returned.original_message = pipe.chan.original_message
    /\ \A i \in LlmFailedAt :
          /\ trace[i].ctx.response = <<"[Error]", "llm exception">>
          /\ (TurnDone /\ ~GraphFailed) =>
                /\ \E j \in EventAt : j > i /\ trace[j].name = "OUTPUT"
                /\ trace[Len(trace) - 1].name = "END"
                /\ ResponseKeptAfter(i) =>
                      pipe.returned.response = <<"[Error]", "llm exception">>
    /\ (TurnDone /\ pipe.llm_calls > 0 /\ ~GraphFailed) =>
          \E j \in EventAt : trace[j].name = "END"
    /\ (RaisedAt # {} /\ TurnDone /\ ~GraphFailed) =>
          /\ trace[Len(trace) - 1].name = "END"
          /\ ~Skipped => Stages = StageOrder

\* A finished turn in which a subscriber raised and the collaborator failed.
C16_Witness ==
    /\ TurnDone /\ ~GraphFailed
    /\ LlmFailedAt # {}
    /\ RaisedAt # {}
    /\ Stages = StageOrder
    /\ pipe.returned.response = <<"[Error]", "llm exception">>

\* C17: the message_ids of a successful non-streaming chat.send are the
\* generated_ids of the context the turn returned: the value the OUTPUT
\* subscribers left (the END subscribers, who run after them, not having
\* written it), and the empty map when no subscriber set it.
C17_MessageIdsFromOutput ==
    TurnDone =>
       /\ pipe.result.message_ids = pipe.returned.generated_ids
       /\ (\A i \in EventAt : trace[i].eff # "set_ids") =>
             pipe.result.message_ids = NoValue
       /\ ~GraphFailed =>
             \A k, e \in EventAt :
                (/\ trace[k].name = "OUTPUT"
                 /\ trace[e].name = "END" /\ trace[e].eff # "set_ids") =>
                   pipe.result.message_ids =
                      Subscribed(trace[k].ctx, "OUTPUT",
                                 trace[k].eff).generated_ids

\* A successful chat.send whose OUTPUT subscribers wrote generated_ids.
C17_Witness ==
    /\ TurnDone /\ ~GraphFailed
    /\ \E k \in EventAt : trace[k].name = "OUTPUT" /\ trace[k].eff = "set_ids"
    /\ pipe.result.message_ids = <<"ids", "OUTPUT">>
    /\ pipe.result.response = <<"llm content">>

(***************************************************************************)
(* Properties of the streaming chat.send (SpecStream).  They read the      *)
(* history emitted of the stream in progress (or of the last one).         *)
(***************************************************************************)
IsEmit(e) == e.kind = "emit"

IsToken(e) == e.kind = "emit" /\ e.type = CHAT_TOKEN

IsSentToken(e) == IsToken(e) /\ e.sent

TokenFields(entries) == [i \in 1..Len(entries) |-> entries[i].token]

\* The positions of the entries of one kind and type.
At(kind, type) ==
    {i \in 1..Len(emitted) : emitted[i].kind = kind /\ emitted[i].type = type}

\* C18: for every stream the concatenation, in emission order, of the
\* token fields of the CHAT_TOKEN events sent equals the response field of
\* the stream's CHAT_STREAM_END event, also when the client connection
\* appears or disappears during the stream.
C18_TokensConcatEqualsEnd ==
    \A i \in At("emit", CHAT_STREAM_END) :
       emitted[i].sent =>
          Concat(TokenFields(SelectSeq(emitted, IsSentToken)))
             = emitted[i].response

C21_ErrorStreamPublishesOutput ==
    (strm.pc = "done" /\ strm.how = "source raised") =>
       \E i \in At("publish", "OUTPUT") :
          /\ emitted[i].sequential
          /\ emitted[i].response = Concat(strm.yielded)
          /\ \A j \in At("emit", CHAT_STREAM_END) : i < j

\* The positions of the calls named call in the log of the operation.
HostCalls(call) == {i \in 1..Len(hlog) : hlog[i].call = call}

\* The plugins Phase 1 reaches register_commands for: the enabled ones
\* whose instantiation succeeds.
Registering ==
    {p \in PluginIds :
        /\ IsEnabled(MergedConfig(hdisk[p].defaults, hdisk[p].override))
        /\ hdisk[p].does # "init_fail"}

\* The plugins Phase 1 stores: those whose register_commands returns.
Stored == {p \in Registering : hdisk[p].does # "reg_fail"}

\* C22: during initialize and restart_vault every register_commands and
\* register_hooks call of Phase 1 precedes every on_load call; when the
\* first on_load is called, register_commands has been called for every
\* enabled plugin that could be instantiated; on_load is called on the
\* stored plugins in the order of their names, each of them once the
\* operation has completed.
C22_RegisterBeforeOnLoad ==
    /\ \A j \in HostCalls("on_load") :
         /\ \A i \in HostCalls("init") \cup HostCalls("register_commands")
                       \cup HostCalls("register_hooks") : i < j
         /\ \A p \in Registering :
               \E i \in HostCalls("register_commands") :
                  hlog[i].plugin = p /\ hlog[i].inc = hlog[j].inc
         /\ \A p \in Stored :
               \E i \in HostCalls("register_hooks") :
                  hlog[i].plugin = p /\ hlog[i].inc = hlog[j].inc
         /\ hlog[j].plugin \in Stored
         /\ \A i \in HostCalls("on_load") :
               i < j => NameRank(hlog[i].plugin) < NameRank(hlog[j].plugin)
    /\ (host.pc = "ready" /\ host.op \in {"initialize", "restart"}) =>
          {hlog[j].plugin : j \in HostCalls("on_load")} = Stored

\* Witness: a restart has completed in which on_load was called on two
\* plugins.
C22_Witness ==
    /\ host.pc = "ready"
    /\ host.op = "restart"
    /\ Cardinality(HostCalls("on_load")) = 2

StepRank(c) ==
    CASE c.call = "publish" /\ c.plugin = "SYSTEM_SHUTDOWN" -> 1
      [] c.call = "on_unload" -> 2
      [] c.call = "clear" -> 3
      [] c.call = "load_config" -> 4
      [] c.call \in {"init", "register_commands", "register_hooks"} -> 5
      [] c.call = "on_load" -> 6
      [] c.call = "publish" /\ c.plugin = "PLUGIN_LOADED" -> 6
      [] c.call = "register_core" -> 7
      [] c.call = "publish" /\ c.plugin = "ALL_PLUGINS_LOADED" -> 8
      [] OTHER -> 0

\* The positions of the log whose call is of step n.
StepCalls(n) == {i \in 1..Len(hlog) : StepRank(hlog[i]) = n}

\* on_unload has been called once on each plugin that was active, the
\* calls being in the reverse of the order of the names.
UnloadedAll ==
    /\ \A p \in host.before.plugins :
          Cardinality({i \in StepCalls(2) : hlog[i].plugin = p}) = 1
    /\ \A i \in StepCalls(2) : hlog[i].plugin \in host.before.plugins
    /\ \A i, j \in StepCalls(2) :
          i < j => NameRank(hlog[i].plugin) > NameRank(hlog[j].plugin)

\* C24: restart_vault publishes SYSTEM_SHUTDOWN first, calls on_unload
\* once on every active plugin in reverse discovery order whether or not
\* one raises, then clears the registry and replaces the bus, reloads the
\* configuration, runs Phase 1, then Phase 2, re-registers the core
\* commands and publishes ALL_PLUGINS_LOADED last; no publication after
\* the clearing invokes a handler subscribed before the restart; every
\* plugin active after the restart has had on_load called exactly once in
\* it.  shutdown does the first two steps.
C24_RestartOrder ==
    /\ (host.op \in {"restart", "shutdown"}) =>
          /\ StepRank(hlog[1]) = 1
          /\ \A i, j \in 1..Len(hlog) :
                i < j => StepRank(hlog[i]) <= StepRank(hlog[j])
          /\ \A i \in 1..Len(hlog) : StepRank(hlog[i]) # 0
          /\ (StepCalls(3) # {} \/ host.pc = "stopped") => UnloadedAll
          /\ \A j \in HostCalls("publish") : \A i \in StepCalls(3) :
                i < j => \A h \in hlog[j].invoked : h.inc = hlog[j].inc
    /\ (host.op = "restart" /\ host.pc = "ready") =>
          /\ \A n \in {1, 3, 4, 7, 8} : Cardinality(StepCalls(n)) = 1
          /\ StepRank(hlog[Len(hlog)]) = 8
          /\ commands # {}
          /\ \A p \in PluginSet(plugins) :
                /\ Cardinality({i \in HostCalls("on_load") :
                                   hlog[i].plugin = p}) = 1
                /\ onLoads[p] = host.restarts + 1
    /\ (host.op = "shutdown") => StepCalls(3) = {}

\* Witness: a restart has completed in which on_unload was called on two
\* plugins, the first call raising, the ALL_PLUGINS_LOADED publication
\* invoking the handlers the plugins subscribed in the restart.
C24_Witness ==
    /\ host.op = "restart"
    /\ host.pc = "ready"
    /\ Cardinality(StepCalls(2)) = 2
    /\ hlog[2].call = "on_unload" /\ hlog[2].raised
    /\ Cardinality(hlog[Len(hlog)].invoked) = 2

\* The value the workspace override gives to a key of plugin p when it is
\* an object holding the key, and the local default otherwise.
Overlaid(p, enabledKey) ==
    LET o == hdisk[p].override
        d == hdisk[p].defaults
        ov == IF enabledKey THEN o.enabled ELSE o.param
        dv == IF enabledKey THEN d.enabled ELSE d.param
    IN  IF o.kind = "dict" /\ ov # "absent" THEN ov ELSE dv

\* C25: the config a plugin's constructor receives holds, for every key,
\* the value of the workspace override of the plugin when the override is
\* an object that has the key, and the value of the local defaults
\* otherwise; once Phase 1 is over a plugin has been instantiated exactly
\* when that value of the key enabled is true, so that a plugin with the
\* key in neither file, or with a false default and an override that is
\* not an object, has not been.
C25_MergedConfigDecides ==
    /\ \A i \in HostCalls("init") :
          /\ hlog[i].cfg.enabled = Overlaid(hlog[i].plugin, TRUE)
          /\ hlog[i].cfg.param = Overlaid(hlog[i].plugin, FALSE)
    /\ (host.pc \in {"phase2", "ready"}) =>
          \A p \in PluginIds :
             (\E i \in HostCalls("init") :
                 hlog[i].plugin = p /\ hlog[i].inc = host.inc)
             <=> Overlaid(p, TRUE) = "true"

\* Witness: Phase 1 is over; one plugin, disabled by its defaults and
\* enabled by the workspace, was instantiated with the workspace's value
\* of param; another, with an override that is not an object, was
\* instantiated on the strength of its defaults.
C25_Witness ==
    /\ host.pc = "phase2"
    /\ \E i, j \in HostCalls("init") :
          /\ hdisk[hlog[i].plugin].defaults.enabled = "false"
          /\ hdisk[hlog[i].plugin].override.kind = "dict"
          /\ hlog[i].cfg.param = "w"
          /\ hdisk[hlog[j].plugin].override = Malformed
          /\ hlog[j].cfg.param = "d"

\* C26: when initialize or restart_vault has completed, every enabled
\* plugin whose code does not raise has had register_commands and on_load
\* called, whatever the other plugins did, and no plugin whose
\* instantiation, register_commands or on_load raised is in the active
\* plugin set.
C26_FailureIsolated ==
    (host.pc = "ready" /\ host.op \in {"initialize", "restart"}) =>
       \A p \in PluginIds :
          /\ (IsEnabled(MergedConfig(hdisk[p].defaults, hdisk[p].override))
              /\ hdisk[p].does \in {"ok", "unload_fail"}) =>
                /\ \E i \in HostCalls("register_commands") :
                      hlog[i].plugin = p /\ ~hlog[i].raised
                /\ \E i \in HostCalls("on_load") :
                      hlog[i].plugin = p /\ ~hlog[i].raised
                /\ p \in PluginSet(plugins)
          /\ (hdisk[p].does \in {"init_fail", "reg_fail", "load_fail"}) =>
                p \notin PluginSet(plugins)

\* C27: when chat.get_metadata returned a model_override, the LLM
\* collaborator is called with the override's model if it names one, and
\* otherwise with the override's category and no model, whatever model
\* and category the chat.send call supplied and whether it streams or not.
C27_OverrideDecidesModel ==
    (chat.pc = "called" /\ chat.found) =>
       IF chat.override.model_id # NoModel
       THEN chat.llm.model = chat.override.model_id
       ELSE /\ chat.llm.category = chat.override.category
            /\ chat.llm.model = NoModel

\* C28: for every built-in command and every parameter set, the call with
\* the parameters nested under p or params and no named argument has the
\* outcome of the call with the same parameters as named arguments.
C28_UnwrappingUniform ==
    (builtin.pc = "called") =>
       builtin.outcome = Bind(builtin.cmd, builtin.P, FALSE, <<>>)

\* C29: the websocket accepted last is the current connection for as long
\* as it has not closed and its read loop runs, whatever happens to the
\* read loops of the websockets accepted before it.
C29_LatestConnectionStaysCurrent ==
    \A b \in Conns :
       (b = connCount /\ loopPc[b] = "idle" /\ transport[b] = "up") =>
          connection = b

\* C30: on every connection the events are written in the order in which
\* emit_to_frontend was called for them.
C30_EmissionOrderKept ==
    \A c \in Conns : \A i, j \in 1..Len(wire[c]) :
       i < j => wire[c][i].id < wire[c][j].id

\* Witness: three events were emitted one after another while a client was
\* connected; two have been written and the task of the third is ready.
C30_Witness ==
    /\ emits = 3
    /\ Len(sendTasks) = 1
    /\ \E c \in Conns : Len(wire[c]) = 2

\* The emission numbers of the messages in a sequence.
IdsOf(msgs) == {msgs[i].id : i \in 1..Len(msgs)}

\* C31: no outbound message is lost: every message handed to
\* emit_to_frontend or send_to_rust so far has been written to a
\* connection or is still held, in pending_messages or by a send task.
C31_OutboundNotLost ==
    \A n \in 1..emits :
       \/ n \in IdsOf(pending) \cup IdsOf(sendTasks)
       \/ \E c \in Conns : n \in IdsOf(wire[c])

\* C32: a non-streaming chat.send turn in which no subscriber did anything
\* and the pipeline found no LLM service returns status success with the
\* response "[Demo Mode] Echo: <message>" and no message ids.
C32_EchoWithoutCollaborator ==
    (/\ TurnDone
     /\ pipe.chan.original_message # 0
     /\ \A i \in EventAt : trace[i].eff = "none"
     /\ \E i \in 1..Len(trace) :
           trace[i].kind = "work" /\ trace[i].eff = "unavailable") =>
       /\ pipe.result.response = LlmResponse("placeholder")
       /\ pipe.result.message_ids = NoValue

\* C33: once a subscriber of a stage event has set should_abort, no later
\* stage event is published and no built-in work runs in the turn: an
\* abort set at START keeps INPUT from being published, an abort set at
\* LLM keeps the collaborator from being called.
C33_AnyStageShortCircuits ==
    \A i \in EventAt :
       trace[i].eff = "abort" =>
          \A j \in 1..Len(trace) :
             j > i => ~IsEvent(trace[j]) /\ trace[j].kind # "work"


(***************************************************************************)
(* C34: each incoming request is handled as its own task: while the        *)
(* handler of one request is suspended, the read loop of the same          *)
(* connection can take the next request.                                   *)
(***************************************************************************)
C34_RequestsAreOwnTasks ==
    \A c \in Conns :
       (loopPc[c] = "handler" /\ transport[c] = "up" /\ handled < MaxMsgs)
          => \E m \in Messages(handled + 1) : ENABLED Receive(c, m)


(***************************************************************************)
(* C35: for the same message, history and metadata, and no subscribers,    *)
(* stream_run hands the LLM collaborator the same message sequence as the  *)
(* LLM stage of run: the system message, the history entries in order, the *)
(* user message.                                                           *)
(***************************************************************************)
C35_SameMessageSequence ==
    (built.run # <<>> /\ built.stream # <<>>) => built.stream = built.run

(***************************************************************************)
(* C36: create_branch at a message that is not the last of its branch      *)
(* splits the branch: the original keeps the messages up to the target,    *)
(* a continuation whose parent_branch is the original holds the rest, the  *)
(* new branch is empty, has the original as parent_branch and is active;   *)
(* a saved interaction is appended to the active branch only.              *)
(***************************************************************************)
C36_CreateBranchSplits ==
    /\ (memLast.op = "create_branch" /\ memLast.split) =>
          LET t == memLast.target
              c == memLast.continuation
              old == memLast.before[t].messages
          IN /\ branches[t].messages = SubSeq(old, 1, memLast.index)
             /\ branches[c].used
             /\ branches[c].parent = t
             /\ branches[c].messages
                   = SubSeq(old, memLast.index + 1, Len(old))
             /\ branches[memLast.branch]
                   = [used |-> TRUE, parent |-> t, messages |-> <<>>]
             /\ active = memLast.branch
    /\ (memLast.op = "save_interaction" /\ memLast.wasActive # 0) =>
          /\ memLast.branch = memLast.wasActive
          /\ \A b \in BranchIds \ {memLast.branch} :
                branches[b] = memLast.before[b]
          /\ branches[memLast.branch].messages
                = memLast.before[memLast.branch].messages
                     \o <<2 * memLast.saves - 1, 2 * memLast.saves>>

(***************************************************************************)
(* C40: after any sequence of save_interaction, create_branch and          *)
(* switch_branch the parent_branch relation of the chat is acyclic:        *)
(* _reconstruct_history terminates for every branch id and returns each    *)
(* stored message of the ancestry exactly once.                            *)
(***************************************************************************)
C40_ParentRelationAcyclic ==
    \A b \in UsedBranches(branches) :
       LET h == History(branches, b)
       IN /\ h.ok
          /\ \A i, j \in 1..Len(h.messages) :
                h.messages[i] = h.messages[j] => i = j


(***************************************************************************)
(* C37: when initialize is complete every built-in command id resolves to  *)
(* the core handler with owner core, whatever a plugin registered under    *)
(* that id in Phase 1 or Phase 2, with or without override; while          *)
(* register_commands and on_load run, no built-in command of this load is  *)
(* registered yet.                                                         *)
(***************************************************************************)
C37_CoreRegisteredLast ==
    \A id \in CoreIds :
       /\ loadPc = "done" =>
             Lookup(commands, id)
                = [id |-> id, handler |-> HandlerOf(CORE_PLUGIN_NAME, 0, FALSE),
                   plugin |-> CORE_PLUGIN_NAME]
       /\ loadPc \in {"phase1", "phase2"} =>
             Lookup(commands, id).plugin # CORE_PLUGIN_NAME

\* C37 witness: load is complete, one stored plugin registered a built-in id
\* in register_commands and another with override in on_load.
C37_Witness ==
    /\ loadPc = "done"
    /\ \E a, b \in PluginIds, id \in CoreIds :
          /\ a # b
          /\ IsStored(disk[a].mode) /\ disk[a].reg1.id = id
          /\ IsStored(disk[b].mode)
          /\ disk[b].reg2 = [id |-> id, override |-> TRUE]
          /\ Lookup(commands, id).plugin = CORE_PLUGIN_NAME


(***************************************************************************)
(* C38: when the load is complete every command of the registry is owned   *)
(* by core or by a plugin of the active plugin set: a plugin whose         *)
(* instantiation or Phase 1 registration failed leaves no command behind.  *)
(***************************************************************************)
C38_NoCommandOfFailedPlugin ==
    loadPc = "done" =>
       \A r \in commands :
          \/ r.plugin = CORE_PLUGIN_NAME
          \/ \E i \in 1..Len(plugins) : plugins[i] = r.plugin


(***************************************************************************)
(* C39: for a streaming chat.send the CHAT_STREAM_END event of the stream  *)
(* is written to the connection before the JSON-RPC response to the        *)
(* request.                                                                *)
(***************************************************************************)
IsStreamEnd(frame, stream_id) ==
    /\ "event_type" \in DOMAIN frame
    /\ frame.event_type = CHAT_STREAM_END
    /\ frame.stream_id = stream_id

IsResult(frame) == "type" \in DOMAIN frame /\ frame.type = "result"

C39_StreamEndBeforeResponse ==
    \A c \in Conns :
       \A j \in 1..Len(wire[c]) :
          (IsResult(wire[c][j]) /\ wire[c][j].id # NoId) =>
             \E i \in 1..(j - 1) : IsStreamEnd(wire[c][i], wire[c][j].id)

====
